---- MODULE Spec2Model ----
(***************************************************************************)
(* Personal-Gains-Tracker: the Analytics view with the Analyze button      *)
(* (src/src/components/layout/Navigation.tsx, lines 73-430), its window    *)
(* selection, interval generation and aggregation, over the store defined  *)
(* by the SQL migration (src/unnamed/part_000, lines 746-837).             *)
(*                                                                         *)
(* Time.  A JavaScript Date is an instant; it is modelled as the number of *)
(* hours since 2023-01-01T00:00Z.  The client's time zone is tz hours east *)
(* of UTC, so the local wall clock of instant t reads t + tz.  Calendar    *)
(* days are numbered from 2023-01-01 = 0 in the proleptic Gregorian        *)
(* calendar.  Daylight-saving shifts are not modelled.                     *)
(*                                                                         *)
(* Strings.  format() results are modelled by their fields:                *)
(*   "yyyy-MM-dd" -> <<y, m, d>>      "yyyy-MM"  -> <<y, m>>               *)
(*   "MMM dd"     -> <<"Mar", d>>     "MMM yyyy" -> <<"Mar", y>>           *)
(* Zero-padded ISO strings compare as these tuples do, field by field.     *)
(*                                                                         *)
(* Numbers.  weight_kg and effort are DECIMAL(n,2); they are modelled in   *)
(* hundredths (8000 is 80.00).                                             *)
(***************************************************************************)
EXTENDS Integers, Sequences, FiniteSets, Bags, TLC

VARIABLES
    today,              \* environment: the client's local calendar day
    tz,                 \* environment: the client's UTC offset in hours
    workout_entries,    \* store: bag of rows of table workout_entries
    selectedExercise,   \* Analytics: useState("")  lines 76, 463
    selectedGroup,      \* Analytics: useState("")  lines 77, 464
    viewMode,           \* Analytics with the Analyze button: useState("week") line 78
    chartData,          \* useState([])  line 79
    loading,            \* useState(false) line 80
    toast,              \* description of the last notification raised, or ""
    inflight,           \* the store requests issued by a view and not yet resolved
    gen,                \* a direct call of generateDateIntervals and its result
    exercise_groups,    \* store: the rows of table exercise_groups
    exercises,          \* store: the rows of table exercises
    nextId,             \* store: how many ids gen_random_uuid() has handed out
    timeframe,          \* effect-driven Analytics: useState("month") line 465
    singleExerciseData, \* useState([]) line 466
    groupData,          \* useState([]) line 467
    managementView,     \* which ExerciseManagement is mounted: "guarded"
                        \* (Navigation.tsx 759-1103) or "cascading" (part_000 23-336)
    exercisesList,      \* ExerciseManagement: the state named exercises, line 760
    exerciseGroups,     \* useState([]) line 761
    newExerciseName,    \* useState("") line 762
    selectedGroupForExercise, \* useState("") line 763
    newGroupName,       \* useState("") line 764
    mgmtLoading,        \* ExerciseManagement: the state named loading, line 765
    entryExercise,      \* WorkoutEntry: the state named selectedExercise, part_000 line 361
    weight,             \* useState("") part_000 line 362
    reps,               \* useState("") part_000 line 363
    workoutDate,        \* useState<Date>() part_000 line 364
    entryExercises,     \* WorkoutEntry: the state named exercises, part_000 line 360
    entryLoading,       \* WorkoutEntry: the state named loading, part_000 line 365
    entryView           \* which WorkoutEntry is mounted: "dated" (part_000
                        \* 359-561) or "undated" (part_000 578-745)

\* the store's other tables and the state of the other views
storeTables == <<exercise_groups, exercises, nextId>>
effectState == <<timeframe, singleExerciseData, groupData>>
managementState ==
    <<managementView, exercisesList, exerciseGroups, newExerciseName,
      selectedGroupForExercise, newGroupName, mgmtLoading>>
entryState ==
    <<entryExercise, weight, reps, workoutDate, entryExercises, entryLoading, entryView>>

\* the state of the Analytics view with the Analyze button
analyzeState == <<viewMode, chartData, loading>>

vars == <<today, tz, workout_entries, selectedExercise, selectedGroup,
          viewMode, chartData, loading, toast, inflight, gen,
          storeTables, effectState, managementState, entryState>>

-----------------------------------------------------------------------------
(* Calendar                                                                *)

Years == 2023..2024

IsLeapYear(y) == (y % 4 = 0 /\ y % 100 # 0) \/ y % 400 = 0

DaysInMonth(y, m) ==
    IF m = 2 THEN (IF IsLeapYear(y) THEN 29 ELSE 28)
    ELSE IF m \in {4, 6, 9, 11} THEN 30 ELSE 31

RECURSIVE DaysBeforeYear(_)
DaysBeforeYear(y) ==
    IF y = 2023 THEN 0
    ELSE DaysBeforeYear(y - 1) + (IF IsLeapYear(y - 1) THEN 366 ELSE 365)

RECURSIVE DaysBeforeMonth(_, _)
DaysBeforeMonth(y, m) ==
    IF m = 1 THEN 0 ELSE DaysBeforeMonth(y, m - 1) + DaysInMonth(y, m - 1)

\* <<y, m, d>> -> day number
DayNumber(c) == DaysBeforeYear(c[1]) + DaysBeforeMonth(c[1], c[2]) + c[3] - 1

CalendarDates ==
    UNION { UNION { { <<y, m, d>> : d \in 1..DaysInMonth(y, m) } : m \in 1..12 }
            : y \in Years }

CalendarTable ==
    [n \in 0..(Cardinality(CalendarDates) - 1) |->
        CHOOSE c \in CalendarDates : DayNumber(c) = n]

\* day number -> <<y, m, d>>
YMD(n) == CalendarTable[n]

MonthNames ==
    <<"Jan", "Feb", "Mar", "Apr", "May", "Jun",
      "Jul", "Aug", "Sep", "Oct", "Nov", "Dec">>

-----------------------------------------------------------------------------
(* JavaScript Date and date-fns, in the client's time zone                 *)

\* getFullYear/getMonth/getDate/getHours: the local wall clock of instant t
LocalDay(t)  == (t + tz) \div 24
LocalHour(t) == (t + tz) % 24

\* new Date(y, m, d, h): the instant at which the local wall clock reads so
LocalInstant(day, hour) == day * 24 + hour - tz

\* new Date("yyyy-MM-dd"): a date-only ISO string is parsed as UTC midnight
NewDateFromISO(ymd) == DayNumber(ymd) * 24

\* date-fns format(date, pattern): local fields
format(t, pattern) ==
    LET c == YMD(LocalDay(t)) IN
    CASE pattern = "yyyy-MM-dd" -> <<c[1], c[2], c[3]>>
      [] pattern = "yyyy-MM"    -> <<c[1], c[2]>>
      [] pattern = "MMM dd"     -> <<MonthNames[c[2]], c[3]>>
      [] pattern = "MMM yyyy"   -> <<MonthNames[c[2]], c[1]>>

\* date-fns subDays: setDate(getDate() - n), same local time of day
subDays(t, n) == LocalInstant(LocalDay(t) - n, LocalHour(t))

\* date-fns subMonths: the same day of the month n months earlier, clamped
\* to the last day of that month
subMonths(t, n) ==
    LET c   == YMD(LocalDay(t))
        idx == c[1] * 12 + (c[2] - 1) - n
        y   == idx \div 12
        m   == (idx % 12) + 1
        d   == IF c[3] > DaysInMonth(y, m) THEN DaysInMonth(y, m) ELSE c[3]
    IN  LocalInstant(DayNumber(<<y, m, d>>), LocalHour(t))

\* date-fns subYears(date, n) = subMonths(date, 12 n)
subYears(t, n) == subMonths(t, 12 * n)

\* the loop of eachDayOfInterval: push, then setDate(+1), setHours(0,0,0,0)
RECURSIVE EachDayLoop(_, _)
EachDayLoop(day, endTime) ==
    IF LocalInstant(day, 0) <= endTime
    THEN <<LocalInstant(day, 0)>> \o EachDayLoop(day + 1, endTime)
    ELSE <<>>

\* date-fns eachDayOfInterval({start, end}), start <= end: local midnights
\* from the day of start while <= end
eachDayOfInterval(start, end) == EachDayLoop(LocalDay(start), end)

\* first day of the month after that of day number n
NextMonthStart(n) ==
    LET c == YMD(n) IN
    IF c[2] = 12 THEN DayNumber(<<c[1] + 1, 1, 1>>)
    ELSE DayNumber(<<c[1], c[2] + 1, 1>>)

\* the loop of eachMonthOfInterval: push, then setMonth(getMonth() + 1)
RECURSIVE EachMonthLoop(_, _)
EachMonthLoop(day, endTime) ==
    IF LocalInstant(day, 0) <= endTime
    THEN <<LocalInstant(day, 0)>> \o EachMonthLoop(NextMonthStart(day), endTime)
    ELSE <<>>

\* date-fns eachMonthOfInterval({start, end}), start <= end: local midnights
\* of the first of each month, from the month of start while <= end
eachMonthOfInterval(start, end) ==
    LET c == YMD(LocalDay(start)) IN
    EachMonthLoop(DayNumber(<<c[1], c[2], 1>>), end)

-----------------------------------------------------------------------------
(* Analytics: window and intervals                                         *)

ViewModes == {"week", "month", "year"}

\* getDateRange with a week window that reaches back six days
getDateRangeSixDays(mode, now) ==
    CASE mode = "week"  -> [start |-> subDays(now, 6),   end |-> now]
      [] mode = "month" -> [start |-> subMonths(now, 1), end |-> now]
      [] mode = "year"  -> [start |-> subYears(now, 1),  end |-> now]

\* getDateRange (lines 122-132); now is new Date(), mode the closure's viewMode
getDateRange(mode, now) ==
    CASE mode = "week"  -> [start |-> subDays(now, 7),   end |-> now]
      [] mode = "month" -> [start |-> subMonths(now, 1), end |-> now]
      [] mode = "year"  -> [start |-> subYears(now, 1),  end |-> now]

\* the map callbacks of lines 137-140 and 147-150, and the maps
DayInterval(t)   == [date |-> format(t, "MMM dd"),   dateValue |-> format(t, "yyyy-MM-dd")]
MonthInterval(t) == [date |-> format(t, "MMM yyyy"), dateValue |-> format(t, "yyyy-MM")]
DayIntervals(ts)   == [i \in 1..Len(ts) |-> DayInterval(ts[i])]
MonthIntervals(ts) == [i \in 1..Len(ts) |-> MonthInterval(ts[i])]

\* generateDateIntervals whose year case iterates days, not months
generateDateIntervalsDaily(mode, start, end) ==
    CASE mode = "week"  -> DayIntervals(eachDayOfInterval(start, end))
      [] mode = "month" -> DayIntervals(eachDayOfInterval(start, end))
      [] mode = "year"  -> MonthIntervals(eachDayOfInterval(start, end))

\* generateDateIntervals (lines 134-152)
generateDateIntervals(mode, start, end) ==
    CASE mode = "week"  -> DayIntervals(eachDayOfInterval(start, end))
      [] mode = "month" -> DayIntervals(eachDayOfInterval(start, end))
      [] mode = "year"  -> MonthIntervals(eachMonthOfInterval(start, end))

-----------------------------------------------------------------------------
(* The store (part_000, lines 746-837)                                     *)

\* exercise_groups and exercises, as seeded by the migration (lines 819-834)
ExerciseGroupTable ==
    { [id |-> "g-legs",  name |-> "Legs"],
      [id |-> "g-chest", name |-> "Chest"] }

ExerciseTable ==
    { [id |-> "e-squat", name |-> "Squat",               group_id |-> "g-legs"],
      [id |-> "e-press", name |-> "Leg Press",           group_id |-> "g-legs"],
      [id |-> "e-bench", name |-> "Barbell Bench Press", group_id |-> "g-chest"] }

ExerciseIds == { e.id : e \in ExerciseTable }
GroupIds    == { g.id : g \in ExerciseGroupTable }

\* the row of table exercises that the embedded exercises(name) reads
ExerciseById(id) == CHOOSE e \in exercises : e.id = id

\* effort DECIMAL(8,2) GENERATED ALWAYS AS (weight_kg * reps) STORED (line 769);
\* weight_kg is in hundredths, so is the product
Effort(row) == row.weight_kg * row.reps

\* Array.prototype.reduce((sum, x) => sum + x, 0) over a sequence of numbers
RECURSIVE SumSeq(_)
SumSeq(s) == IF Len(s) = 0 THEN 0 ELSE Head(s) + SumSeq(Tail(s))

\* .order("workout_date"): the rows of a bag as a sequence ascending by
\* workout_date (the order among equal dates is the store's choice; the
\* aggregation sums, so nothing below depends on it)
RECURSIVE OrderByDate(_)
OrderByDate(bag) ==
    IF BagToSet(bag) = {} THEN <<>>
    ELSE LET r == CHOOSE x \in BagToSet(bag) :
                      \A y \in BagToSet(bag) : x.workout_date <= y.workout_date
         IN  <<r>> \o OrderByDate(bag (-) SetToBag({r}))

\* SelectEntries without the .gte / .lte filters
SelectEntriesAnyDate(ids, lo, hi) ==
    LET kept == { r \in BagToSet(workout_entries) : r.exercise_id \in ids }
    IN  OrderByDate([r \in kept |-> workout_entries[r]])

\* the rows of workout_entries with exercise_id in ids and
\* lo <= workout_date <= hi, where lo and hi are "yyyy-MM-dd" strings that
\* the store parses as dates (.gte / .lte, lines 164-165 and 225-226)
SelectEntries(ids, lo, hi) ==
    LET keep(r) == /\ r.exercise_id \in ids
                   /\ r.workout_date >= DayNumber(lo)
                   /\ r.workout_date <= DayNumber(hi)
        kept    == { r \in BagToSet(workout_entries) : keep(r) }
    IN  OrderByDate([r \in kept |-> workout_entries[r]])

\* a row as PostgREST returns it for select("workout_date, effort"):
\* the DATE column as a "yyyy-MM-dd" string
SingleRow(r) == [workout_date |-> YMD(r.workout_date), effort |-> Effort(r)]
SingleRows(rows) == [i \in 1..Len(rows) |-> SingleRow(rows[i])]

\* a row for select("workout_date, effort, exercises(name)")
GroupRow(r) ==
    [workout_date |-> YMD(r.workout_date), effort |-> Effort(r),
     exercises |-> [name |-> ExerciseById(r.exercise_id).name]]
GroupRows(rows) == [i \in 1..Len(rows) |-> GroupRow(rows[i])]

-----------------------------------------------------------------------------
(* Aggregation                                                             *)

\* the filter callback of lines 177-182 and 240-245
EntryInInterval(mode, entry, interval) ==
    IF mode = "year"
    THEN format(NewDateFromISO(entry.workout_date), "yyyy-MM") = interval.dateValue
    ELSE entry.workout_date = interval.dateValue

\* parseFloat(entry.effort.toString()): the number itself
EffortOf(entry) == entry.effort

\* reduce((sum, entry) => sum + parseFloat(entry.effort.toString()), 0)
SumEffort(entries) == SumSeq([i \in 1..Len(entries) |-> EffortOf(entries[i])])

\* SingleProcessedData that maps over the intervals that have entries only
SingleProcessedDataSkipEmpty(mode, data, intervals) ==
    LET hasData(interval) ==
            \E j \in 1..Len(data) : EntryInInterval(mode, data[j], interval)
        record(interval) ==
            LET dayData == SelectSeq(data, LAMBDA entry : EntryInInterval(mode, entry, interval))
            IN  [date |-> interval.date, effort |-> SumEffort(dayData)]
        kept == SelectSeq(intervals, hasData)
    IN  [i \in 1..Len(kept) |-> record(kept[i])]

\* SingleProcessedData that pushes its records onto the chart data of the
\* analysis before
SingleProcessedDataAccumulating(mode, data, intervals) ==
    LET record(interval) ==
            LET dayData == SelectSeq(data, LAMBDA entry : EntryInInterval(mode, entry, interval))
            IN  [date |-> interval.date, effort |-> SumEffort(dayData)]
    IN  chartData \o [i \in 1..Len(intervals) |-> record(intervals[i])]

\* lines 175-190: one record per interval
SingleProcessedData(mode, data, intervals) ==
    LET record(interval) ==
            LET dayData == SelectSeq(data, LAMBDA entry : EntryInInterval(mode, entry, interval))
            IN  [date |-> interval.date, effort |-> SumEffort(dayData)]
    IN  [i \in 1..Len(intervals) |-> record(intervals[i])]

\* line 237: [...new Set(data.map(entry => entry.exercises?.name).filter(Boolean))]
ExerciseNamesOf(data) ==
    { data[i].exercises.name : i \in 1..Len(data) } \ {""}

\* GroupProcessedData that writes a key only for the exercises that have
\* entries in the interval
GroupProcessedDataSparse(mode, data, intervals) ==
    LET record(interval) ==
            LET dayData == SelectSeq(data, LAMBDA entry : EntryInInterval(mode, entry, interval))
                total(name) ==
                    SumEffort(SelectSeq(dayData, LAMBDA entry : entry.exercises.name = name))
            IN  [k \in {"date"} \cup ExerciseNamesOf(dayData) |->
                    IF k \in ExerciseNamesOf(dayData) THEN total(k) ELSE interval.date]
    IN  [i \in 1..Len(intervals) |-> record(intervals[i])]

\* lines 236-256: per interval, result = {date} and then result[name] =
\* total for every exercise name, in that order
GroupProcessedData(mode, data, intervals) ==
    LET exerciseNames == ExerciseNamesOf(data)
        record(interval) ==
            LET dayData == SelectSeq(data, LAMBDA entry : EntryInInterval(mode, entry, interval))
                total(name) ==
                    SumEffort(SelectSeq(dayData, LAMBDA entry : entry.exercises.name = name))
            IN  [k \in {"date"} \cup exerciseNames |->
                    IF k \in exerciseNames THEN total(k) ELSE interval.date]
    IN  [i \in 1..Len(intervals) |-> record(intervals[i])]

-----------------------------------------------------------------------------
(* Bounds and input sets                                                   *)

\* largest number of rows of workout_entries
MaxRows == 2

\* longest interval, in days, passed directly to generateDateIntervals
MaxSpan == 35

\* the client's local date: the first of a month, and the 31st of a month
\* that follows a shorter one
NowDays == { DayNumber(<<2024, 3, 1>>), DayNumber(<<2024, 3, 31>>) }

\* UTC offsets west and east of Greenwich
TimeZones == {-5, 9}

\* local hour of the clock when it is read
ClockHours == {0, 15}

Weights == {8000}
RepsSet == {10}

WindowStartDay(mode, day) == LocalDay(getDateRange(mode, LocalInstant(day, 0)).start)

\* dates of the rows: around both ends of each mode's window
EntryDays(day) ==
    {day, day + 1} \cup
    UNION { {WindowStartDay(mode, day) - 1, WindowStartDay(mode, day)} : mode \in ViewModes }

RowPool(exerciseIds, days) ==
    [exercise_id : exerciseIds, weight_kg : Weights, reps : RepsSet, workout_date : days]

RECURSIVE BagsUpTo(_, _)
BagsUpTo(pool, n) ==
    IF n = 0 THEN {EmptyBag}
    ELSE LET prev == BagsUpTo(pool, n - 1)
         IN  prev \cup { b (+) SetToBag({r}) : b \in prev, r \in pool }

-----------------------------------------------------------------------------
(* The Analytics component (lines 73-430)                                  *)

Request(kind, scope, mode, range, ids) ==
    [kind |-> kind, scope |-> scope, mode |-> mode,
     start |-> range.start, end |-> range.end, ids |-> ids]

NoCall == [state |-> "idle", start |-> 0, end |-> 0, result |-> <<>>]

\* useState initial values (lines 76-80)
InitComponent ==
    /\ selectedExercise = ""
    /\ selectedGroup = ""
    /\ viewMode = "week"
    /\ chartData = <<>>
    /\ loading = FALSE
    /\ toast = ""
    /\ inflight = {}

\* The option lists of the two selects (fetchExercises, fetchExerciseGroups,
\* lines 83-120) are taken as loaded: every exercise and group of the store
\* can be selected.

\* onClick of a view-mode button (line 286)
SetViewMode(mode) ==
    /\ viewMode' = mode
    /\ UNCHANGED <<today, tz, workout_entries, selectedExercise, selectedGroup,
                   chartData, loading, toast, inflight, gen>>
    /\ UNCHANGED <<storeTables, effectState, managementState, entryState>>

\* onValueChange of the exercise select without setSelectedGroup("")
SelectExerciseKeepGroup(id) ==
    /\ selectedExercise' = id
    /\ UNCHANGED <<today, tz, workout_entries, selectedGroup, viewMode, chartData,
                   loading, toast, inflight, gen>>
    /\ UNCHANGED <<storeTables, effectState, managementState, entryState>>

\* onValueChange of the exercise select (lines 303-306)
SelectExercise(id) ==
    /\ selectedExercise' = id
    /\ selectedGroup' = ""
    /\ UNCHANGED <<today, tz, workout_entries, viewMode, chartData, loading,
                   toast, inflight, gen>>
    /\ UNCHANGED <<storeTables, effectState, managementState, entryState>>

\* onValueChange of the group select (lines 331-334)
SelectGroup(id) ==
    /\ selectedGroup' = id
    /\ selectedExercise' = ""
    /\ UNCHANGED <<today, tz, workout_entries, viewMode, chartData, loading,
                   toast, inflight, gen>>
    /\ UNCHANGED <<storeTables, effectState, managementState, entryState>>

\* fetchSingleExerciseData up to its await (lines 154-166)
fetchSingleExerciseData(now) ==
    IF selectedExercise = "" THEN UNCHANGED <<loading, inflight>>
    ELSE /\ loading' = TRUE
         /\ inflight' = inflight \cup
                { Request("entries", selectedExercise, viewMode,
                          getDateRange(viewMode, now), {selectedExercise}) }

\* fetchGroupData up to its first await (lines 198-208)
fetchGroupData(now) ==
    IF selectedGroup = "" THEN UNCHANGED <<loading, inflight>>
    ELSE /\ loading' = TRUE
         /\ inflight' = inflight \cup
                { Request("groupExercises", selectedGroup, viewMode,
                          getDateRange(viewMode, now), {}) }

\* handleAnalyze that fetches the group data whenever no exercise is selected
handleAnalyzeAnyGroup(now) ==
    IF selectedExercise # "" THEN fetchSingleExerciseData(now)
    ELSE /\ loading' = TRUE
         /\ inflight' = inflight \cup
                { Request("groupExercises", selectedGroup, viewMode,
                          getDateRange(viewMode, now), {}) }

\* handleAnalyze (lines 264-270)
handleAnalyze(now) ==
    IF selectedExercise # "" THEN fetchSingleExerciseData(now)
    ELSE IF selectedGroup # "" THEN fetchGroupData(now)
    ELSE UNCHANGED <<loading, inflight>>

\* ClickAnalyze on a button that stays enabled while loading
ClickAnalyzeWhileLoading(hour) ==
    /\ ~(selectedExercise = "" /\ selectedGroup = "")
    /\ handleAnalyze(LocalInstant(today, hour))
    /\ UNCHANGED <<today, tz, workout_entries, selectedExercise, selectedGroup,
                   viewMode, chartData, toast, gen>>
    /\ UNCHANGED <<storeTables, effectState, managementState, entryState>>

\* a click on the Analyze button (lines 354-357), enabled unless
\* loading || (!selectedExercise && !selectedGroup)
ClickAnalyze(hour) ==
    /\ ~(loading \/ (selectedExercise = "" /\ selectedGroup = ""))
    /\ handleAnalyze(LocalInstant(today, hour))
    /\ UNCHANGED <<today, tz, workout_entries, selectedExercise, selectedGroup,
                   viewMode, chartData, toast, gen>>
    /\ UNCHANGED <<storeTables, effectState, managementState, entryState>>

\* fetchSingleExerciseData after its await, the query succeeded (lines 174-195)
SingleEntriesLoaded(r) ==
    /\ r \in inflight /\ r.kind = "entries"
    /\ LET data == SingleRows(SelectEntries(r.ids, format(r.start, "yyyy-MM-dd"),
                                            format(r.end, "yyyy-MM-dd")))
           intervals == generateDateIntervals(r.mode, r.start, r.end)
       IN  chartData' = SingleProcessedData(r.mode, data, intervals)
    /\ loading' = FALSE
    /\ inflight' = inflight \ {r}
    /\ UNCHANGED <<today, tz, workout_entries, selectedExercise, selectedGroup,
                   viewMode, toast, gen>>
    /\ UNCHANGED <<storeTables, effectState, managementState, entryState>>

\* fetchSingleExerciseData after its await, the query failed (lines 168-173, 195)
SingleEntriesFailed(r) ==
    /\ r \in inflight /\ r.kind = "entries"
    /\ toast' = "Failed to load workout data"
    /\ loading' = FALSE
    /\ inflight' = inflight \ {r}
    /\ UNCHANGED <<today, tz, workout_entries, selectedExercise, selectedGroup,
                   viewMode, chartData, gen>>
    /\ UNCHANGED <<storeTables, effectState, managementState, entryState>>

\* fetchGroupData after its first await, the query succeeded: the second
\* query is issued (lines 220-227)
GroupExercisesLoaded(r) ==
    /\ r \in inflight /\ r.kind = "groupExercises"
    /\ LET groupExercises == { e \in exercises : e.group_id = r.scope }
       IN  inflight' = (inflight \ {r}) \cup
               { [r EXCEPT !.kind = "groupEntries",
                           !.ids = { ex.id : ex \in groupExercises }] }
    /\ UNCHANGED <<today, tz, workout_entries, selectedExercise, selectedGroup,
                   viewMode, chartData, loading, toast, gen>>
    /\ UNCHANGED <<storeTables, effectState, managementState, entryState>>

\* GroupExercisesFailed that goes on to the second query
GroupExercisesFailedGoesOn(r) ==
    /\ r \in inflight /\ r.kind = "groupExercises"
    /\ toast' = "Failed to load group exercises"
    /\ inflight' = (inflight \ {r}) \cup { [r EXCEPT !.kind = "groupEntries"] }
    /\ UNCHANGED <<today, tz, workout_entries, selectedExercise, selectedGroup,
                   viewMode, chartData, loading, gen>>
    /\ UNCHANGED <<storeTables, effectState, managementState, entryState>>

\* fetchGroupData after its first await, the query failed (lines 210-218)
GroupExercisesFailed(r) ==
    /\ r \in inflight /\ r.kind = "groupExercises"
    /\ toast' = "Failed to load group exercises"
    /\ loading' = FALSE
    /\ inflight' = inflight \ {r}
    /\ UNCHANGED <<today, tz, workout_entries, selectedExercise, selectedGroup,
                   viewMode, chartData, gen>>
    /\ UNCHANGED <<storeTables, effectState, managementState, entryState>>

\* fetchGroupData after its second await, the query succeeded (lines 235-261)
GroupEntriesLoaded(r) ==
    /\ r \in inflight /\ r.kind = "groupEntries"
    /\ LET data == GroupRows(SelectEntries(r.ids, format(r.start, "yyyy-MM-dd"),
                                           format(r.end, "yyyy-MM-dd")))
           intervals == generateDateIntervals(r.mode, r.start, r.end)
       IN  chartData' = GroupProcessedData(r.mode, data, intervals)
    /\ loading' = FALSE
    /\ inflight' = inflight \ {r}
    /\ UNCHANGED <<today, tz, workout_entries, selectedExercise, selectedGroup,
                   viewMode, toast, gen>>
    /\ UNCHANGED <<storeTables, effectState, managementState, entryState>>

\* GroupEntriesFailed that returns before setLoading(false)
GroupEntriesFailedStaysLoading(r) ==
    /\ r \in inflight /\ r.kind = "groupEntries"
    /\ toast' = "Failed to load workout data"
    /\ inflight' = inflight \ {r}
    /\ UNCHANGED <<today, tz, workout_entries, selectedExercise, selectedGroup,
                   viewMode, chartData, loading, gen>>
    /\ UNCHANGED <<storeTables, effectState, managementState, entryState>>

\* fetchGroupData after its second await, the query failed (lines 229-234, 261)
GroupEntriesFailed(r) ==
    /\ r \in inflight /\ r.kind = "groupEntries"
    /\ toast' = "Failed to load workout data"
    /\ loading' = FALSE
    /\ inflight' = inflight \ {r}
    /\ UNCHANGED <<today, tz, workout_entries, selectedExercise, selectedGroup,
                   viewMode, chartData, gen>>
    /\ UNCHANGED <<storeTables, effectState, managementState, entryState>>

\* Array.prototype.reverse
Reverse(s) == [i \in 1..Len(s) |-> s[Len(s) + 1 - i]]

\* a direct call generateDateIntervals(start, end) with start > end, the
\* code has no test of its own (lines 134-152); built with date-fns 2,
\* eachDayOfInterval and eachMonthOfInterval throw RangeError("Invalid
\* interval")
GenerateDateIntervalsThrows ==
    /\ gen.state = "args"
    /\ gen.start > gen.end
    /\ gen' = [gen EXCEPT !.state = "RangeError"]
    /\ UNCHANGED <<today, tz, workout_entries, selectedExercise, selectedGroup,
                   viewMode, chartData, loading, toast, inflight>>
    /\ UNCHANGED <<storeTables, effectState, managementState, entryState>>

\* the same call built with date-fns 3 or 4: eachDayOfInterval and
\* eachMonthOfInterval iterate from end to start and return the dates
\* reversed, which the maps of lines 137-140 and 147-150 turn into intervals
GenerateDateIntervalsReversed ==
    /\ gen.state = "args"
    /\ gen.start > gen.end
    /\ gen' = [gen EXCEPT !.state = "done",
                          !.result = Reverse(generateDateIntervals(viewMode, gen.end, gen.start))]
    /\ UNCHANGED <<today, tz, workout_entries, selectedExercise, selectedGroup,
                   viewMode, chartData, loading, toast, inflight>>
    /\ UNCHANGED <<storeTables, effectState, managementState, entryState>>

\* a direct call generateDateIntervals(start, end)
GenerateDateIntervals ==
    /\ gen.state = "args"
    /\ gen' = [gen EXCEPT !.state = "done",
                          !.result = generateDateIntervals(viewMode, gen.start, gen.end)]
    /\ UNCHANGED <<today, tz, workout_entries, selectedExercise, selectedGroup,
                   viewMode, chartData, loading, toast, inflight>>
    /\ UNCHANGED <<storeTables, effectState, managementState, entryState>>

\* direct calls of the three handlers, whatever the Analyze button's state
CallHandleAnalyze(hour) ==
    /\ handleAnalyze(LocalInstant(today, hour))
    /\ gen' = [NoCall EXCEPT !.state = "handleAnalyze"]
    /\ UNCHANGED <<today, tz, workout_entries, selectedExercise, selectedGroup,
                   viewMode, chartData, toast>>
    /\ UNCHANGED <<storeTables, effectState, managementState, entryState>>

CallFetchSingleExerciseData(hour) ==
    /\ fetchSingleExerciseData(LocalInstant(today, hour))
    /\ gen' = [NoCall EXCEPT !.state = "fetchSingleExerciseData"]
    /\ UNCHANGED <<today, tz, workout_entries, selectedExercise, selectedGroup,
                   viewMode, chartData, toast>>
    /\ UNCHANGED <<storeTables, effectState, managementState, entryState>>

CallFetchGroupData(hour) ==
    /\ fetchGroupData(LocalInstant(today, hour))
    /\ gen' = [NoCall EXCEPT !.state = "fetchGroupData"]
    /\ UNCHANGED <<today, tz, workout_entries, selectedExercise, selectedGroup,
                   viewMode, chartData, toast>>
    /\ UNCHANGED <<storeTables, effectState, managementState, entryState>>

-----------------------------------------------------------------------------
(* The effect-driven Analytics component (lines 460-736).  Its two selects *)
(* are independent: an exercise and a group can be selected together, each *)
(* with its own chart.                                                     *)

\* largest number of requests of this view in flight together
MaxInflight == 2

\* the row of table exercises with the given id
ExerciseRow(id) == CHOOSE e \in exercises : e.id = id

\* .eq("exercise_id", ...) or .eq("exercises.group_id", ...) through the
\* inner join, and .order("workout_date"): no bound on workout_date (lines
\* 524-528 and 550-559)
SelectEntriesOf(ids) ==
    LET kept == { r \in BagToSet(workout_entries) : r.exercise_id \in ids }
    IN  OrderByDate([r \in kept |-> workout_entries[r]])

\* a row for select("weight_kg, reps, workout_date") and for the select of
\* lines 552-557
EffectRow(r) ==
    [weight_kg |-> r.weight_kg, reps |-> r.reps, workout_date |-> YMD(r.workout_date),
     exercises |-> [name |-> ExerciseRow(r.exercise_id).name,
                    group_id |-> ExerciseRow(r.exercise_id).group_id]]
EffectRows(rows) == [i \in 1..Len(rows) |-> EffectRow(rows[i])]

\* lines 539-542 with the effort left as the weight
EffectSingleDataWeightOnly(data) ==
    [i \in 1..Len(data) |-> [date |-> data[i].workout_date, effort |-> data[i].weight_kg]]

\* lines 539-542: one record per row, the effort computed by the client
EffectSingleData(data) ==
    [i \in 1..Len(data) |->
        [date |-> data[i].workout_date, effort |-> data[i].weight_kg * data[i].reps]]

\* the distinct workout dates of a sequence of rows, in the order of their
\* first appearance: the keys of groupedData (lines 571-587)
RECURSIVE GroupedDates(_)
GroupedDates(data) ==
    IF Len(data) = 0 THEN <<>>
    ELSE LET d == Head(data).workout_date
         IN  <<d>> \o GroupedDates(SelectSeq(Tail(data), LAMBDA entry : entry.workout_date # d))

\* lines 571-593: per date the sum of weight_kg * reps of each exercise that
\* has a row on that date, then { date, ...exercises }
EffectGroupData(data) ==
    LET dates == GroupedDates(data)
        record(date) ==
            LET dayData == SelectSeq(data, LAMBDA entry : entry.workout_date = date)
                names   == { dayData[j].exercises.name : j \in 1..Len(dayData) }
                total(name) ==
                    SumSeq([j \in 1..Len(dayData) |->
                               IF dayData[j].exercises.name = name
                               THEN dayData[j].weight_kg * dayData[j].reps ELSE 0])
            IN  [k \in {"date"} \cup names |-> IF k \in names THEN total(k) ELSE date]
    IN  [i \in 1..Len(dates) |-> record(dates[i])]

\* the data keys of the Line elements of a group chart (lines 714-726, and
\* lines 404-419 in the view with the Analyze button):
\* Object.keys(data[0]).filter(key => key !== "date")
GroupLines(data) == IF Len(data) > 0 THEN DOMAIN data[1] \ {"date"} ELSE {}

\* the effect of lines 475-479 and fetchSingleExerciseData up to its await
\* (lines 521-528), for the values of the render that runs the effect
SingleEffect(exercise, period) ==
    IF exercise # ""
    THEN { [kind |-> "singleData", scope |-> exercise, timeframe |-> period] }
    ELSE {}

\* the effect of lines 481-485 and fetchGroupData up to its await (547-559)
GroupEffect(group, period) ==
    IF group # ""
    THEN { [kind |-> "groupData", scope |-> group, timeframe |-> period] }
    ELSE {}

\* setSelectedExercise that drops the requests in flight for another exercise
SetSelectedExerciseCancelling(id) ==
    /\ id # selectedExercise
    /\ Cardinality(inflight) < MaxInflight
    /\ selectedExercise' = id
    /\ inflight' = { q \in inflight : q.kind # "singleData" } \cup SingleEffect(id, timeframe)
    /\ UNCHANGED <<today, tz, workout_entries, selectedGroup, toast, gen>>
    /\ UNCHANGED <<analyzeState, storeTables, effectState, managementState, entryState>>

\* onValueChange of the exercise select (line 630): setSelectedExercise,
\* and the effect that depends on selectedExercise
SetSelectedExercise(id) ==
    /\ id # selectedExercise
    /\ Cardinality(inflight) < MaxInflight
    /\ selectedExercise' = id
    /\ inflight' = inflight \cup SingleEffect(id, timeframe)
    /\ UNCHANGED <<today, tz, workout_entries, selectedGroup, toast, gen>>
    /\ UNCHANGED <<analyzeState, storeTables, effectState, managementState, entryState>>

\* onValueChange of the group select (line 680): setSelectedGroup, and the
\* effect that depends on selectedGroup
SetSelectedGroup(id) ==
    /\ id # selectedGroup
    /\ Cardinality(inflight) < MaxInflight
    /\ selectedGroup' = id
    /\ inflight' = inflight \cup GroupEffect(id, timeframe)
    /\ UNCHANGED <<today, tz, workout_entries, selectedExercise, toast, gen>>
    /\ UNCHANGED <<analyzeState, storeTables, effectState, managementState, entryState>>

\* onValueChange of the time period select (line 611): setTimeframe, and
\* both effects
SetTimeframe(period) ==
    /\ period # timeframe
    /\ Cardinality(inflight \cup SingleEffect(selectedExercise, period)
                            \cup GroupEffect(selectedGroup, period)) <= MaxInflight
    /\ timeframe' = period
    /\ inflight' = inflight \cup SingleEffect(selectedExercise, period)
                            \cup GroupEffect(selectedGroup, period)
    /\ UNCHANGED <<today, tz, workout_entries, selectedExercise, selectedGroup, toast, gen>>
    /\ UNCHANGED <<singleExerciseData, groupData>>
    /\ UNCHANGED <<analyzeState, storeTables, managementState, entryState>>

\* fetchSingleExerciseData after its await, the query succeeded (539-544)
SingleDataLoaded(r) ==
    /\ r \in inflight /\ r.kind = "singleData"
    /\ singleExerciseData' = EffectSingleData(EffectRows(SelectEntriesOf({r.scope})))
    /\ inflight' = inflight \ {r}
    /\ UNCHANGED <<today, tz, workout_entries, selectedExercise, selectedGroup, toast, gen>>
    /\ UNCHANGED <<timeframe, groupData>>
    /\ UNCHANGED <<analyzeState, storeTables, managementState, entryState>>

\* fetchSingleExerciseData after its await, the query failed (lines 530-537)
SingleDataFailed(r) ==
    /\ r \in inflight /\ r.kind = "singleData"
    /\ toast' = "Failed to load workout data"
    /\ inflight' = inflight \ {r}
    /\ UNCHANGED <<today, tz, workout_entries, selectedExercise, selectedGroup, gen>>
    /\ UNCHANGED <<analyzeState, storeTables, effectState, managementState, entryState>>

\* fetchGroupData after its await, the query succeeded (lines 570-595)
GroupDataLoaded(r) ==
    /\ r \in inflight /\ r.kind = "groupData"
    /\ LET ids == { e.id : e \in { x \in exercises : x.group_id = r.scope } }
       IN  groupData' = EffectGroupData(EffectRows(SelectEntriesOf(ids)))
    /\ inflight' = inflight \ {r}
    /\ UNCHANGED <<today, tz, workout_entries, selectedExercise, selectedGroup, toast, gen>>
    /\ UNCHANGED <<timeframe, singleExerciseData>>
    /\ UNCHANGED <<analyzeState, storeTables, managementState, entryState>>

\* fetchGroupData after its await, the query failed (lines 561-568)
GroupDataFailed(r) ==
    /\ r \in inflight /\ r.kind = "groupData"
    /\ toast' = "Failed to load group workout data"
    /\ inflight' = inflight \ {r}
    /\ UNCHANGED <<today, tz, workout_entries, selectedExercise, selectedGroup, gen>>
    /\ UNCHANGED <<analyzeState, storeTables, effectState, managementState, entryState>>

-----------------------------------------------------------------------------
(* The store's statements (part_000, lines 746-772), as PostgREST runs     *)
(* them.  A statement runs in the step in which its response reaches the   *)
(* client; a rejected statement changes nothing.                           *)

\* largest number of rows the clients insert into exercise_groups and
\* exercises together
MaxIds == 1

\* largest number of inserts and deletes of a management view in flight
\* together
MaxMutations == 1

\* gen_random_uuid(): an id never handed out before
IdTable == <<"id-1", "id-2", "id-3", "id-4">>
NewId == IdTable[nextId + 1]

\* every id a row of the two tables can have had
AllGroupIds    == GroupIds \cup { IdTable[i] : i \in 1..Len(IdTable) }
AllExerciseIds == ExerciseIds \cup { IdTable[i] : i \in 1..Len(IdTable) }

\* InsertGroupAccepted of a table whose name column is not UNIQUE
InsertGroupAcceptedAnyName(name) == TRUE

\* INSERT INTO exercise_groups (name): name TEXT NOT NULL UNIQUE (line 749)
InsertGroupAccepted(name) == \A g \in exercise_groups : g.name # name

InsertGroup(name) ==
    /\ exercise_groups' = exercise_groups \cup { [id |-> NewId, name |-> name] }
    /\ nextId' = nextId + 1
    /\ UNCHANGED <<exercises, workout_entries>>

\* INSERT INTO exercises (name, group_id): name UNIQUE (line 757), group_id
\* REFERENCES exercise_groups(id) (line 758)
InsertExerciseAccepted(name, group_id) ==
    /\ \A e \in exercises : e.name # name
    /\ \E g \in exercise_groups : g.id = group_id

InsertExercise(name, group_id) ==
    /\ exercises' = exercises \cup { [id |-> NewId, name |-> name, group_id |-> group_id] }
    /\ nextId' = nextId + 1
    /\ UNCHANGED <<exercise_groups, workout_entries>>

\* the rows of workout_entries without those of the given exercises
EntriesWithout(ids) ==
    LET kept == { r \in BagToSet(workout_entries) : r.exercise_id \notin ids }
    IN  [r \in kept |-> workout_entries[r]]

\* DELETE FROM exercises WHERE id = ...: the exercise's workout entries go
\* with it, ON DELETE CASCADE (line 766); DeleteExerciseKeepEntries leaves
\* them
DeleteExerciseKeepEntries(id) ==
    /\ exercises' = { e \in exercises : e.id # id }
    /\ UNCHANGED <<exercise_groups, workout_entries, nextId>>

DeleteExercise(id) ==
    /\ exercises' = { e \in exercises : e.id # id }
    /\ workout_entries' = EntriesWithout({id})
    /\ UNCHANGED <<exercise_groups, nextId>>

\* DELETE FROM exercise_groups WHERE id = ...: the group's exercises go with
\* it, ON DELETE CASCADE (line 758), and their workout entries with them
\* (line 766)
DeleteGroup(id) ==
    LET gone == { e \in exercises : e.group_id = id } IN
    /\ exercise_groups' = { g \in exercise_groups : g.id # id }
    /\ exercises' = exercises \ gone
    /\ workout_entries' = EntriesWithout({ e.id : e \in gone })
    /\ UNCHANGED nextId

\* weight_kg DECIMAL(5,2): a number given in thousandths is rounded to
\* hundredths, half away from zero; 1000.00 and more is out of range
RoundToHundredths(thousandths) == (thousandths + 5) \div 10

\* INSERT INTO workout_entries: exercise_id REFERENCES exercises(id) (line
\* 766), weight_kg DECIMAL(5,2) (line 767), effort is a generated column and
\* takes no value (line 769) and is DECIMAL(8,2)
InsertEntryAccepted(payload) ==
    /\ "effort" \notin DOMAIN payload
    /\ \E e \in exercises : e.id = payload.exercise_id
    /\ RoundToHundredths(payload.weight_kg) < 100000
    /\ RoundToHundredths(payload.weight_kg) * payload.reps < 100000000

\* workout_date DATE NOT NULL DEFAULT CURRENT_DATE (line 770): the day of
\* the store's clock, which runs on UTC, when the payload has none
InsertEntry(payload, now) ==
    LET row == [exercise_id  |-> payload.exercise_id,
                weight_kg    |-> RoundToHundredths(payload.weight_kg),
                reps         |-> payload.reps,
                workout_date |-> IF "workout_date" \in DOMAIN payload
                                 THEN DayNumber(payload.workout_date)
                                 ELSE now \div 24]
    IN  /\ workout_entries' = workout_entries (+) SetToBag({row})
        /\ UNCHANGED <<exercise_groups, exercises, nextId>>

-----------------------------------------------------------------------------
(* The statements as any client sends them, with any argument: a name that *)
(* is taken or not, an id that is in the table, was in it or never was.    *)

outsideStore ==
    <<today, tz, selectedExercise, selectedGroup, toast, inflight, gen,
      analyzeState, effectState, managementState, entryState>>

\* what a client can send as a workout entry: weight_kg in thousandths,
\* with and without workout_date (part_000 lines 406-413 and 622-628)
EntryPayloads ==
    [exercise_id : AllExerciseIds, weight_kg : {80000, 80555}, reps : {10},
     workout_date : {YMD(today)}]
        \cup [exercise_id : AllExerciseIds, weight_kg : {80000, 80555}, reps : {10}]

StoreInsertGroup(name) ==
    /\ nextId < MaxIds
    /\ InsertGroupAccepted(name)
    /\ InsertGroup(name)
    /\ UNCHANGED outsideStore

StoreInsertExercise(name, group_id) ==
    /\ nextId < MaxIds
    /\ InsertExerciseAccepted(name, group_id)
    /\ InsertExercise(name, group_id)
    /\ UNCHANGED outsideStore

StoreInsertEntry(payload, hour) ==
    /\ BagCardinality(workout_entries) < MaxRows
    /\ InsertEntryAccepted(payload)
    /\ InsertEntry(payload, LocalInstant(today, hour))
    /\ UNCHANGED outsideStore

StoreDeleteExercise(id) ==
    /\ DeleteExercise(id)
    /\ UNCHANGED outsideStore

StoreDeleteGroup(id) ==
    /\ DeleteGroup(id)
    /\ UNCHANGED outsideStore

-----------------------------------------------------------------------------
(* ExerciseManagement: the variant that guards the deletion of a group     *)
(* (Navigation.tsx, lines 759-1103), called "guarded", and the one that    *)
(* does not (part_000, lines 23-336), called "cascading".  Line numbers    *)
(* are those of the guarded variant unless part_000 is named.  The lists   *)
(* are sets: no handler reads the order that .order("name") gives them.    *)

\* what the user types into the two name fields
GroupNameInputs    == {" Legs", "Back"}
ExerciseNameInputs == {"Squat", "Row"}

\* String.prototype.trim on the names above
trim(name) == IF name = " Legs" THEN "Legs" ELSE name

\* everything but the store's tables, the view's state and its requests
outsideManagement ==
    <<today, tz, selectedExercise, selectedGroup, gen, analyzeState, effectState, entryState>>

ManagementRequest(kind, name, id) == [kind |-> kind, name |-> name, id |-> id]

FetchExercisesRequest      == ManagementRequest("fetchExercises", "", "")
FetchExerciseGroupsRequest == ManagementRequest("fetchExerciseGroups", "", "")

\* requests that change the store
Mutations(requests) ==
    { q \in requests : q.kind \notin {"fetchExercises", "fetchExerciseGroups", "exercisesRows"} }

\* a page load: the component mounts with its initial state and its effect
\* (lines 768-774) issues both list queries; what the page before had in
\* flight reaches no component
LoadPage ==
    /\ exercisesList' = {}
    /\ exerciseGroups' = {}
    /\ newExerciseName' = ""
    /\ selectedGroupForExercise' = ""
    /\ newGroupName' = ""
    /\ mgmtLoading' = FALSE
    /\ inflight' = {FetchExercisesRequest, FetchExerciseGroupsRequest}
    /\ UNCHANGED <<workout_entries, toast, storeTables, managementView, outsideManagement>>

\* fetchExercises after its await (lines 782-790)
ExercisesListLoaded(r) ==
    /\ r \in inflight /\ r.kind = "fetchExercises"
    /\ exercisesList' = exercises
    /\ inflight' = inflight \ {r}
    /\ UNCHANGED <<workout_entries, toast, storeTables, managementView, exerciseGroups,
                   newExerciseName, selectedGroupForExercise, newGroupName, mgmtLoading,
                   outsideManagement>>

\* the store answers the query of fetchExercises (lines 777-780): the rows
\* of the answer are those of the table at that moment, and the answer is
\* on its way to the client
ExercisesListRead(r) ==
    /\ r \in inflight /\ r.kind = "fetchExercises"
    /\ inflight' = (inflight \ {r}) \cup
          { [kind |-> "exercisesRows", name |-> "", id |-> "", rows |-> exercises] }
    /\ UNCHANGED <<workout_entries, toast, storeTables, managementState, outsideManagement>>

\* fetchExercises after its await, for an answer that was on its way
\* (lines 782-790): nothing tells a late answer from the latest
ExercisesRowsDelivered(r) ==
    /\ r \in inflight /\ r.kind = "exercisesRows"
    /\ exercisesList' = r.rows
    /\ inflight' = inflight \ {r}
    /\ UNCHANGED <<workout_entries, toast, storeTables, managementView, exerciseGroups,
                   newExerciseName, selectedGroupForExercise, newGroupName, mgmtLoading,
                   outsideManagement>>

\* fetchExercises after its await, the query failed (lines 782-787)
ExercisesListFailed(r) ==
    /\ r \in inflight /\ r.kind = "fetchExercises"
    /\ toast' = "Failed to load exercises"
    /\ inflight' = inflight \ {r}
    /\ UNCHANGED <<workout_entries, storeTables, managementState, outsideManagement>>

\* fetchExerciseGroups after its await (lines 799-807)
GroupsListLoaded(r) ==
    /\ r \in inflight /\ r.kind = "fetchExerciseGroups"
    /\ exerciseGroups' = exercise_groups
    /\ inflight' = inflight \ {r}
    /\ UNCHANGED <<workout_entries, toast, storeTables, managementView, exercisesList,
                   newExerciseName, selectedGroupForExercise, newGroupName, mgmtLoading,
                   outsideManagement>>

GroupsListFailed(r) ==
    /\ r \in inflight /\ r.kind = "fetchExerciseGroups"
    /\ toast' = "Failed to load exercise groups"
    /\ inflight' = inflight \ {r}
    /\ UNCHANGED <<workout_entries, storeTables, managementState, outsideManagement>>

\* onChange of the exercise name field (line 965)
SetNewExerciseName(name) ==
    /\ newExerciseName' = name
    /\ UNCHANGED <<workout_entries, toast, inflight, storeTables, managementView,
                   exercisesList, exerciseGroups, selectedGroupForExercise, newGroupName,
                   mgmtLoading, outsideManagement>>

\* onValueChange of the group select of the exercise form (line 975), whose
\* options are the groups of the list
SetSelectedGroupForExercise(id) ==
    /\ \E g \in exerciseGroups : g.id = id
    /\ selectedGroupForExercise' = id
    /\ UNCHANGED <<workout_entries, toast, inflight, storeTables, managementView,
                   exercisesList, exerciseGroups, newExerciseName, newGroupName,
                   mgmtLoading, outsideManagement>>

\* onChange of the group name field (line 1018)
SetNewGroupName(name) ==
    /\ newGroupName' = name
    /\ UNCHANGED <<workout_entries, toast, inflight, storeTables, managementView,
                   exercisesList, exerciseGroups, newExerciseName, selectedGroupForExercise,
                   mgmtLoading, outsideManagement>>

\* the name a form sends: trimmed by the guarded variant (lines 827, 867),
\* as typed by the cascading one (part_000 lines 88, 128)
SentName(name) == IF managementView = "guarded" THEN trim(name) ELSE name

\* handleAddExercise up to its await (lines 810-829), on a submit button
\* that is disabled while loading (line 995)
handleAddExercise ==
    /\ ~mgmtLoading
    /\ IF SentName(newExerciseName) = "" \/ selectedGroupForExercise = ""
       THEN /\ toast' = "Missing Information"
            /\ UNCHANGED <<inflight, mgmtLoading>>
       ELSE /\ nextId + Cardinality(Mutations(inflight)) < MaxIds
            /\ mgmtLoading' = TRUE
            /\ inflight' = inflight \cup
                  { ManagementRequest("insertExercise", SentName(newExerciseName),
                                      selectedGroupForExercise) }
            /\ UNCHANGED toast
    /\ UNCHANGED <<workout_entries, storeTables, managementView, exercisesList,
                   exerciseGroups, newExerciseName, selectedGroupForExercise, newGroupName,
                   outsideManagement>>

\* handleAddExercise after its await, the insert succeeded (lines 837-847)
ExerciseAdded(r) ==
    /\ r \in inflight /\ r.kind = "insertExercise"
    /\ InsertExerciseAccepted(r.name, r.id)
    /\ InsertExercise(r.name, r.id)
    /\ toast' = "Exercise added successfully"
    /\ newExerciseName' = ""
    /\ selectedGroupForExercise' = ""
    /\ inflight' = (inflight \ {r}) \cup {FetchExercisesRequest}
    /\ mgmtLoading' = FALSE
    /\ UNCHANGED <<managementView, exercisesList, exerciseGroups, newGroupName,
                   outsideManagement>>

\* handleAddExercise after its await, the insert failed (lines 831-836, 847)
ExerciseAddFailed(r) ==
    /\ r \in inflight /\ r.kind = "insertExercise"
    /\ toast' = "Failed to add exercise. It might already exist."
    /\ inflight' = inflight \ {r}
    /\ mgmtLoading' = FALSE
    /\ UNCHANGED <<workout_entries, storeTables, managementView, exercisesList,
                   exerciseGroups, newExerciseName, selectedGroupForExercise, newGroupName,
                   outsideManagement>>

\* handleAddGroup up to its await (lines 850-868), on a submit button that
\* is disabled while loading (line 1026)
handleAddGroup ==
    /\ ~mgmtLoading
    /\ IF SentName(newGroupName) = ""
       THEN /\ toast' = "Missing Information"
            /\ UNCHANGED <<inflight, mgmtLoading>>
       ELSE /\ nextId + Cardinality(Mutations(inflight)) < MaxIds
            /\ mgmtLoading' = TRUE
            /\ inflight' = inflight \cup
                  { ManagementRequest("insertGroup", SentName(newGroupName), "") }
            /\ UNCHANGED toast
    /\ UNCHANGED <<workout_entries, storeTables, managementView, exercisesList,
                   exerciseGroups, newExerciseName, selectedGroupForExercise, newGroupName,
                   outsideManagement>>

\* handleAddGroup after its await, the insert succeeded (lines 876-885)
GroupAdded(r) ==
    /\ r \in inflight /\ r.kind = "insertGroup"
    /\ InsertGroupAccepted(r.name)
    /\ InsertGroup(r.name)
    /\ toast' = "Exercise group added successfully"
    /\ newGroupName' = ""
    /\ inflight' = (inflight \ {r}) \cup {FetchExerciseGroupsRequest}
    /\ mgmtLoading' = FALSE
    /\ UNCHANGED <<managementView, exercisesList, exerciseGroups, newExerciseName,
                   selectedGroupForExercise, outsideManagement>>

\* handleAddGroup after its await, the insert failed (lines 870-875, 885)
GroupAddFailed(r) ==
    /\ r \in inflight /\ r.kind = "insertGroup"
    /\ toast' = "Failed to add exercise group. It might already exist."
    /\ inflight' = inflight \ {r}
    /\ mgmtLoading' = FALSE
    /\ UNCHANGED <<workout_entries, storeTables, managementView, exercisesList,
                   exerciseGroups, newExerciseName, selectedGroupForExercise, newGroupName,
                   outsideManagement>>

\* handleDeleteExercise up to its await (lines 888-896), from the button of
\* an exercise of the list (line 1085), the confirm dialog accepted
handleDeleteExercise(exerciseId) ==
    /\ \E ex \in exercisesList : ex.id = exerciseId
    /\ Cardinality(Mutations(inflight)) < MaxMutations
    /\ inflight' = inflight \cup { ManagementRequest("deleteExercise", "", exerciseId) }
    /\ UNCHANGED <<workout_entries, toast, storeTables, managementState, outsideManagement>>

\* handleDeleteExercise after its await, the delete succeeded (lines 904-910)
ExerciseDeleted(r) ==
    /\ r \in inflight /\ r.kind = "deleteExercise"
    /\ DeleteExercise(r.id)
    /\ toast' = "Exercise deleted successfully"
    /\ inflight' = (inflight \ {r}) \cup {FetchExercisesRequest}
    /\ UNCHANGED <<managementState, outsideManagement>>

\* handleDeleteExercise after its await, the delete failed (lines 898-903)
ExerciseDeleteFailed(r) ==
    /\ r \in inflight /\ r.kind = "deleteExercise"
    /\ toast' = "Failed to delete exercise"
    /\ inflight' = inflight \ {r}
    /\ UNCHANGED <<workout_entries, storeTables, managementState, outsideManagement>>

\* handleDeleteGroup up to its await, from the button of a group of the
\* list (line 1049).  Guarded (lines 913-932): refused while the list named
\* exercises holds an exercise of the group, else confirmed by the user and
\* sent.  Cascading (part_000 lines 170-174): sent.
handleDeleteGroup(groupId) ==
    /\ \E g \in exerciseGroups : g.id = groupId
    /\ LET exercisesInGroup == { ex \in exercisesList : ex.group_id = groupId } IN
       IF managementView = "guarded" /\ exercisesInGroup # {}
       THEN /\ toast' = "Cannot Delete"
            /\ UNCHANGED inflight
       ELSE /\ Cardinality(Mutations(inflight)) < MaxMutations
            /\ inflight' = inflight \cup { ManagementRequest("deleteGroup", "", groupId) }
            /\ UNCHANGED toast
    /\ UNCHANGED <<workout_entries, storeTables, managementState, outsideManagement>>

\* handleDeleteGroup after its await, the delete succeeded: the guarded
\* variant reloads the groups (lines 940-946), the cascading one the groups
\* and the exercises (part_000 lines 182-189)
GroupDeleted(r) ==
    /\ r \in inflight /\ r.kind = "deleteGroup"
    /\ DeleteGroup(r.id)
    /\ toast' = "Exercise group deleted successfully"
    /\ inflight' = (inflight \ {r}) \cup
          (IF managementView = "guarded" THEN {FetchExerciseGroupsRequest}
           ELSE {FetchExerciseGroupsRequest, FetchExercisesRequest})
    /\ UNCHANGED <<managementState, outsideManagement>>

\* handleDeleteGroup after its await, the delete failed (lines 934-939)
GroupDeleteFailed(r) ==
    /\ r \in inflight /\ r.kind = "deleteGroup"
    /\ toast' = "Failed to delete exercise group"
    /\ inflight' = inflight \ {r}
    /\ UNCHANGED <<workout_entries, storeTables, managementState, outsideManagement>>

-----------------------------------------------------------------------------
(* The WorkoutEntry form: with a date picker (part_000 lines 359-561) and  *)
(* without one (part_000 lines 578-745). The state workoutDate is <<>>     *)
(* when undefined and <<t>> when it holds the Date of instant t; a weight   *)
(* typed in the form is read in thousandths.                               *)

\* what the number inputs can hold when the form is submitted: the weight
\* input has step="0.5" (line 516), the repetitions input the default step
WeightInputs == {"80", "80.5"}
RepsInputs   == {"10", "3"}

\* the largest weight that the step admits below 1000, and numbers of
\* repetitions around 1000
HeavyWeightInputs == {"999.5"}
ManyRepsInputs    == {"1000", "1001"}

\* parseFloat of a weight input, in thousandths
parseFloat(s) == CASE s = "80" -> 80000 [] s = "80.5" -> 80500 [] s = "999.5" -> 999500

\* parseInt of a repetitions input
parseInt(s) ==
    CASE s = "10" -> 10 [] s = "3" -> 3 [] s = "1000" -> 1000 [] s = "1001" -> 1001

outsideEntry ==
    <<today, tz, selectedExercise, selectedGroup, gen,
      analyzeState, storeTables, effectState, managementState>>

\* fetchExercises up to its await (lines 375-379)
FetchEntryExercisesRequest == [kind |-> "fetchEntryExercises"]

\* the argument of insert (lines 408-413; lines 624-628 have no workout_date)
EntryPayload ==
    IF entryView = "dated"
    THEN [exercise_id  |-> entryExercise,
          weight_kg    |-> parseFloat(weight),
          reps         |-> parseInt(reps),
          workout_date |-> format(workoutDate[1], "yyyy-MM-dd")]
    ELSE [exercise_id  |-> entryExercise,
          weight_kg    |-> parseFloat(weight),
          reps         |-> parseInt(reps)]

\* fetchExercises after its await, the query succeeded (line 388)
EntryExercisesLoaded(r) ==
    /\ r \in inflight /\ r.kind = "fetchEntryExercises"
    /\ entryExercises' = exercises
    /\ inflight' = inflight \ {r}
    /\ UNCHANGED <<entryExercise, weight, reps, workoutDate, entryLoading, entryView>>
    /\ UNCHANGED <<workout_entries, toast, outsideEntry>>

\* fetchExercises after its await, the query failed (lines 381-386)
EntryExercisesFailed(r) ==
    /\ r \in inflight /\ r.kind = "fetchEntryExercises"
    /\ toast' = "Failed to load exercises"
    /\ inflight' = inflight \ {r}
    /\ UNCHANGED <<workout_entries, entryState, outsideEntry>>

\* onValueChange of the exercise select (line 478): one of the items, which
\* are the rows of the list
SetEntryExercise(id) ==
    /\ \E e \in entryExercises : e.id = id
    /\ entryExercise' = id
    /\ UNCHANGED <<weight, reps, workoutDate, entryExercises, entryLoading, entryView>>
    /\ UNCHANGED <<workout_entries, toast, inflight, outsideEntry>>

\* onChange of the weight input (line 518)
SetWeight(value) ==
    /\ weight' = value
    /\ UNCHANGED <<entryExercise, reps, workoutDate, entryExercises, entryLoading, entryView>>
    /\ UNCHANGED <<workout_entries, toast, inflight, outsideEntry>>

\* onChange of the repetitions input (line 532)
SetReps(value) ==
    /\ reps' = value
    /\ UNCHANGED <<entryExercise, weight, workoutDate, entryExercises, entryLoading, entryView>>
    /\ UNCHANGED <<workout_entries, toast, inflight, outsideEntry>>

\* onSelect of the calendar (line 467): the local midnight of the day picked
SetWorkoutDate(day) ==
    /\ entryView = "dated"
    /\ workoutDate' = <<LocalInstant(day, 0)>>
    /\ UNCHANGED <<entryExercise, weight, reps, entryExercises, entryLoading, entryView>>
    /\ UNCHANGED <<workout_entries, toast, inflight, outsideEntry>>

\* onSelect of the calendar on the day that is selected: single mode
\* without required (lines 464-470) deselects it, setWorkoutDate(undefined)
ClearWorkoutDate ==
    /\ entryView = "dated"
    /\ workoutDate # <<>>
    /\ workoutDate' = <<>>
    /\ UNCHANGED <<entryExercise, weight, reps, entryExercises, entryLoading, entryView>>
    /\ UNCHANGED <<workout_entries, toast, inflight, outsideEntry>>

\* handleSubmit that calls setLoading(true) before the test of the fields
handleSubmitLoadingFirst ==
    /\ ~entryLoading
    /\ entryLoading' = TRUE
    /\ IF \/ entryExercise = "" \/ weight = "" \/ reps = ""
          \/ (entryView = "dated" /\ workoutDate = <<>>)
       THEN /\ toast' = "Please fill in all fields"
            /\ UNCHANGED inflight
       ELSE /\ BagCardinality(workout_entries) < MaxRows
            /\ inflight' = inflight \cup {[kind |-> "insertEntry", payload |-> EntryPayload]}
            /\ UNCHANGED toast
    /\ UNCHANGED <<entryExercise, weight, reps, workoutDate, entryExercises, entryView>>
    /\ UNCHANGED <<workout_entries, outsideEntry>>

\* handleSubmit up to its await (lines 392-413 and 607-628); the submit
\* button is disabled while loading (lines 548 and 731)
handleSubmit ==
    /\ ~entryLoading
    /\ IF \/ entryExercise = "" \/ weight = "" \/ reps = ""
          \/ (entryView = "dated" /\ workoutDate = <<>>)
       THEN /\ toast' = "Please fill in all fields"
            /\ UNCHANGED <<inflight, entryLoading>>
       ELSE /\ BagCardinality(workout_entries) < MaxRows
            /\ entryLoading' = TRUE
            /\ inflight' = inflight \cup {[kind |-> "insertEntry", payload |-> EntryPayload]}
            /\ UNCHANGED toast
    /\ UNCHANGED <<entryExercise, weight, reps, workoutDate, entryExercises, entryView>>
    /\ UNCHANGED <<workout_entries, outsideEntry>>

\* handleSubmit after its await, the insert succeeded (lines 421-433 and
\* 636-644): the form is reset, the date to the instant of the reset
EntryInserted(r, hour) ==
    /\ r \in inflight /\ r.kind = "insertEntry"
    /\ InsertEntryAccepted(r.payload)
    /\ InsertEntry(r.payload, LocalInstant(today, hour))
    /\ toast' = "Workout entry logged successfully"
    /\ entryExercise' = ""
    /\ weight' = ""
    /\ reps' = ""
    /\ workoutDate' = IF entryView = "dated" THEN <<LocalInstant(today, hour)>> ELSE workoutDate
    /\ entryLoading' = FALSE
    /\ inflight' = inflight \ {r}
    /\ UNCHANGED <<entryExercises, entryView>>
    /\ UNCHANGED <<today, tz, selectedExercise, selectedGroup, gen>>
    /\ UNCHANGED <<analyzeState, effectState, managementState>>

\* EntryInsertFailed that resets the form as the success branch does
EntryInsertFailedResets(r) ==
    /\ r \in inflight /\ r.kind = "insertEntry"
    /\ toast' = "Failed to log workout entry"
    /\ entryExercise' = ""
    /\ weight' = ""
    /\ reps' = ""
    /\ entryLoading' = FALSE
    /\ inflight' = inflight \ {r}
    /\ UNCHANGED <<workoutDate, entryExercises, entryView>>
    /\ UNCHANGED <<workout_entries, outsideEntry>>

\* handleSubmit after its await, the insert failed (lines 415-420, 433 and
\* 630-635, 647)
EntryInsertFailed(r) ==
    /\ r \in inflight /\ r.kind = "insertEntry"
    /\ toast' = "Failed to log workout entry"
    /\ entryLoading' = FALSE
    /\ inflight' = inflight \ {r}
    /\ UNCHANGED <<entryExercise, weight, reps, workoutDate, entryExercises, entryView>>
    /\ UNCHANGED <<workout_entries, outsideEntry>>

-----------------------------------------------------------------------------
(* Views that a specification leaves unmounted, and the seeded tables      *)

\* the two tables as the migration seeds them (lines 819-834)
SeededTables ==
    /\ exercise_groups = ExerciseGroupTable
    /\ exercises = ExerciseTable
    /\ nextId = 0

\* useState initial values of the effect-driven Analytics (lines 463-467)
InitEffectState ==
    /\ timeframe = "month"
    /\ singleExerciseData = <<>>
    /\ groupData = <<>>

\* useState initial values of ExerciseManagement (lines 760-765)
InitManagementState ==
    /\ exercisesList = {}
    /\ exerciseGroups = {}
    /\ newExerciseName = ""
    /\ selectedGroupForExercise = ""
    /\ newGroupName = ""
    /\ mgmtLoading = FALSE

\* useState initial values of WorkoutEntry (part_000 lines 361-365)
InitEntryState ==
    /\ entryExercise = ""
    /\ weight = ""
    /\ reps = ""
    /\ workoutDate = <<>>
    /\ entryExercises = {}
    /\ entryLoading = FALSE

NoOtherView ==
    /\ InitEffectState
    /\ InitManagementState /\ managementView = "none"
    /\ InitEntryState /\ entryView = "none"

-----------------------------------------------------------------------------
(* Specifications                                                          *)

\* The component from its mount, the user choosing scope and view mode.
\* The store holds at most one row, dated the day before today, for each of
\* two exercises of different groups.
Init ==
    /\ today \in NowDays
    /\ tz \in TimeZones
    /\ \E rows \in SUBSET RowPool({"e-squat", "e-bench"}, {today - 1}) :
          workout_entries = SetToBag(rows)
    /\ InitComponent
    /\ gen = NoCall
    /\ SeededTables
    /\ NoOtherView

Next ==
    \/ \E mode \in ViewModes : SetViewMode(mode)
    \/ \E id \in ExerciseIds : SelectExercise(id)
    \/ \E id \in GroupIds : SelectGroup(id)
    \/ \E hour \in ClockHours : ClickAnalyze(hour)
    \/ \E r \in inflight : SingleEntriesLoaded(r)
    \/ \E r \in inflight : SingleEntriesFailed(r)
    \/ \E r \in inflight : GroupExercisesLoaded(r)
    \/ \E r \in inflight : GroupExercisesFailed(r)
    \/ \E r \in inflight : GroupEntriesLoaded(r)
    \/ \E r \in inflight : GroupEntriesFailed(r)

Spec == Init /\ [][Next]_vars

\* every request is answered in the end, with rows or with an error
Resolve ==
    \E r \in inflight :
        \/ SingleEntriesFailed(r) \/ GroupExercisesFailed(r) \/ GroupEntriesFailed(r)
        \/ SingleEntriesLoaded(r) \/ GroupExercisesLoaded(r) \/ GroupEntriesLoaded(r)

\* The same component over one store, with every request answered.
InitLive ==
    /\ today = DayNumber(<<2024, 3, 1>>)
    /\ tz = -5
    /\ workout_entries = SetToBag(RowPool({"e-squat"}, {today - 1}))
    /\ InitComponent
    /\ gen = NoCall
    /\ SeededTables
    /\ NoOtherView

SpecLive == InitLive /\ [][Next]_vars /\ WF_vars(Resolve)

\* The handlers called with no exercise and no group selected, as the
\* component is after its mount.
InitDirect ==
    /\ today \in NowDays
    /\ tz \in TimeZones
    /\ \E rows \in SUBSET RowPool({"e-squat", "e-bench"}, {today - 1}) :
          workout_entries = SetToBag(rows)
    /\ InitComponent
    /\ gen = NoCall
    /\ SeededTables
    /\ NoOtherView

NextDirect ==
    \/ \E mode \in ViewModes : SetViewMode(mode)
    \/ \E hour \in ClockHours : CallHandleAnalyze(hour)
    \/ \E hour \in ClockHours : CallFetchSingleExerciseData(hour)
    \/ \E hour \in ClockHours : CallFetchGroupData(hour)

SpecDirect == InitDirect /\ [][NextDirect]_vars

\* The effect-driven Analytics from its mount, over stores in which Squat
\* has rows today and the day before the week window and Barbell Bench
\* Press a row yesterday.
EffectRowPool ==
    RowPool({"e-squat"}, {today, WindowStartDay("week", today) - 1})
        \cup RowPool({"e-bench"}, {today - 1})

InitEffect ==
    /\ today \in NowDays
    /\ tz = -5
    /\ \E rows \in SUBSET EffectRowPool : workout_entries = SetToBag(rows)
    /\ InitComponent
    /\ gen = NoCall
    /\ SeededTables
    /\ InitEffectState
    /\ InitManagementState /\ managementView = "none"
    /\ InitEntryState /\ entryView = "none"

NextEffect ==
    \/ \E id \in ExerciseIds : SetSelectedExercise(id)
    \/ \E id \in GroupIds : SetSelectedGroup(id)
    \/ \E period \in ViewModes : SetTimeframe(period)
    \/ \E r \in inflight : SingleDataLoaded(r)
    \/ \E r \in inflight : SingleDataFailed(r)
    \/ \E r \in inflight : GroupDataLoaded(r)
    \/ \E r \in inflight : GroupDataFailed(r)

SpecEffect == InitEffect /\ [][NextEffect]_vars

\* The effect-driven Analytics from its mount, over stores in which two
\* exercises of the group Legs have rows on different days.
InitEffectGroup ==
    /\ today \in NowDays
    /\ tz = -5
    /\ \E rows \in SUBSET (RowPool({"e-squat"}, {today}) \cup RowPool({"e-press"}, {today - 1})) :
          workout_entries = SetToBag(rows)
    /\ InitComponent
    /\ gen = NoCall
    /\ SeededTables
    /\ InitEffectState
    /\ InitManagementState /\ managementView = "none"
    /\ InitEntryState /\ entryView = "none"

SpecEffectGroup == InitEffectGroup /\ [][NextEffect]_vars

\* The guarded ExerciseManagement from a page load, over a store that holds
\* the group Legs with the exercise Squat and one workout entry of it.
InitManagement ==
    /\ today = DayNumber(<<2024, 3, 1>>)
    /\ tz = -5
    /\ exercise_groups = { g \in ExerciseGroupTable : g.id = "g-legs" }
    /\ exercises = { e \in ExerciseTable : e.id = "e-squat" }
    /\ nextId = 0
    /\ workout_entries = SetToBag(RowPool({"e-squat"}, {today}))
    /\ managementView = "guarded"
    /\ InitManagementState
    /\ inflight = {FetchExercisesRequest, FetchExerciseGroupsRequest}
    /\ selectedExercise = "" /\ selectedGroup = ""
    /\ viewMode = "week" /\ chartData = <<>> /\ loading = FALSE
    /\ toast = ""
    /\ gen = NoCall
    /\ InitEffectState
    /\ InitEntryState /\ entryView = "none"

NextManagement ==
    \/ LoadPage
    \/ \E r \in inflight : ExercisesListLoaded(r)
    \/ \E r \in inflight : ExercisesListFailed(r)
    \/ \E r \in inflight : GroupsListLoaded(r)
    \/ \E r \in inflight : GroupsListFailed(r)
    \/ \E name \in ExerciseNameInputs : SetNewExerciseName(name)
    \/ \E id \in AllGroupIds : SetSelectedGroupForExercise(id)
    \/ \E name \in GroupNameInputs : SetNewGroupName(name)
    \/ handleAddExercise
    \/ \E r \in inflight : ExerciseAdded(r)
    \/ \E r \in inflight : ExerciseAddFailed(r)
    \/ handleAddGroup
    \/ \E r \in inflight : GroupAdded(r)
    \/ \E r \in inflight : GroupAddFailed(r)
    \/ \E id \in AllExerciseIds : handleDeleteExercise(id)
    \/ \E r \in inflight : ExerciseDeleted(r)
    \/ \E r \in inflight : ExerciseDeleteFailed(r)
    \/ \E id \in AllGroupIds : handleDeleteGroup(id)
    \/ \E r \in inflight : GroupDeleted(r)
    \/ \E r \in inflight : GroupDeleteFailed(r)

SpecManagement == InitManagement /\ [][NextManagement]_vars

\* Either ExerciseManagement from a page load, over the same store, with
\* every request answered without error and the answers to the exercises
\* query delivered in any order.
InitRefetch ==
    /\ today = DayNumber(<<2024, 3, 1>>)
    /\ tz = -5
    /\ exercise_groups = { g \in ExerciseGroupTable : g.id = "g-legs" }
    /\ exercises = { e \in ExerciseTable : e.id = "e-squat" }
    /\ nextId = 0
    /\ workout_entries = SetToBag(RowPool({"e-squat"}, {today}))
    /\ managementView \in {"guarded", "cascading"}
    /\ InitManagementState
    /\ inflight = {FetchExercisesRequest, FetchExerciseGroupsRequest}
    /\ selectedExercise = "" /\ selectedGroup = ""
    /\ viewMode = "week" /\ chartData = <<>> /\ loading = FALSE
    /\ toast = ""
    /\ gen = NoCall
    /\ InitEffectState
    /\ InitEntryState /\ entryView = "none"

NextRefetch ==
    \/ \E r \in inflight : ExercisesListLoaded(r)
    \/ \E r \in inflight : ExercisesListRead(r)
    \/ \E r \in inflight : ExercisesRowsDelivered(r)
    \/ \E r \in inflight : GroupsListLoaded(r)
    \/ \E name \in ExerciseNameInputs : SetNewExerciseName(name)
    \/ \E id \in AllGroupIds : SetSelectedGroupForExercise(id)
    \/ handleAddExercise
    \/ \E r \in inflight : ExerciseAdded(r)
    \/ \E id \in AllExerciseIds : handleDeleteExercise(id)
    \/ \E r \in inflight : ExerciseDeleted(r)
    \/ \E id \in AllGroupIds : handleDeleteGroup(id)
    \/ \E r \in inflight : GroupDeleted(r)

SpecRefetch == InitRefetch /\ [][NextRefetch]_vars

\* The WorkoutEntry form from its mount, either variant, beside the
\* effect-driven Analytics, over a store that holds the group Legs with the
\* exercise Squat and no workout entry.
InitEntry ==
    /\ today = DayNumber(<<2024, 3, 1>>)
    /\ tz = -5
    /\ exercise_groups = { g \in ExerciseGroupTable : g.id = "g-legs" }
    /\ exercises = { e \in ExerciseTable : e.id = "e-squat" }
    /\ nextId = 0
    /\ workout_entries = EmptyBag
    /\ entryView \in {"dated", "undated"}
    /\ entryExercise = "" /\ weight = "" /\ reps = ""
    /\ entryExercises = {}
    /\ entryLoading = FALSE
    /\ workoutDate = IF entryView = "dated" THEN <<LocalInstant(today, 15)>> ELSE <<>>
    /\ inflight = {FetchEntryExercisesRequest}
    /\ selectedExercise = "" /\ selectedGroup = ""
    /\ viewMode = "week" /\ chartData = <<>> /\ loading = FALSE
    /\ toast = ""
    /\ gen = NoCall
    /\ InitEffectState
    /\ InitManagementState /\ managementView = "none"

NextEntry ==
    \/ \E r \in inflight : EntryExercisesLoaded(r)
    \/ \E r \in inflight : EntryExercisesFailed(r)
    \/ \E id \in AllExerciseIds : SetEntryExercise(id)
    \/ \E value \in WeightInputs : SetWeight(value)
    \/ \E value \in RepsInputs : SetReps(value)
    \/ SetWorkoutDate(today - 1)
    \/ ClearWorkoutDate
    \/ handleSubmit
    \/ \E r \in inflight, hour \in ClockHours : EntryInserted(r, hour)
    \/ \E r \in inflight : EntryInsertFailed(r)
    \/ SetSelectedExercise("e-squat")
    \/ \E period \in {"week", "month"} : SetTimeframe(period)
    \/ \E r \in inflight : SingleDataLoaded(r)
    \/ \E r \in inflight : SingleDataFailed(r)

SpecEntry == InitEntry /\ [][NextEntry]_vars

\* The WorkoutEntry form from its mount, either variant, with the heaviest
\* weight and with numbers of repetitions around 1000.
NextNumeric ==
    \/ \E r \in inflight : EntryExercisesLoaded(r)
    \/ \E id \in AllExerciseIds : SetEntryExercise(id)
    \/ \E value \in HeavyWeightInputs : SetWeight(value)
    \/ \E value \in ManyRepsInputs : SetReps(value)
    \/ handleSubmit
    \/ \E r \in inflight, hour \in ClockHours : EntryInserted(r, hour)
    \/ \E r \in inflight : EntryInsertFailed(r)

SpecNumeric == InitEntry /\ [][NextNumeric]_vars

\* The store as seeded, with at most one workout entry, under the
\* statements of every client.
InitStore ==
    /\ today \in NowDays
    /\ tz \in TimeZones
    /\ SeededTables
    /\ workout_entries \in BagsUpTo(RowPool({"e-squat", "e-bench"}, {today - 1}), 1)
    /\ InitComponent
    /\ gen = NoCall
    /\ NoOtherView

NextStore ==
    \/ \E name \in GroupNameInputs \cup {"Legs"} : StoreInsertGroup(name)
    \/ \E name \in ExerciseNameInputs, id \in AllGroupIds : StoreInsertExercise(name, id)
    \/ \E payload \in EntryPayloads, hour \in ClockHours : StoreInsertEntry(payload, hour)
    \/ \E id \in AllExerciseIds : StoreDeleteExercise(id)
    \/ \E id \in AllGroupIds : StoreDeleteGroup(id)

SpecStore == InitStore /\ [][NextStore]_vars

\* One analysis after another for a scope and view mode chosen beforehand,
\* over every store of at most MaxRows rows dated around the window ends.
InitAgg ==
    /\ today \in NowDays
    /\ tz \in TimeZones
    /\ workout_entries \in BagsUpTo(RowPool(ExerciseIds, EntryDays(today)), MaxRows)
    /\ \/ selectedExercise \in ExerciseIds /\ selectedGroup = ""
       \/ selectedExercise = "" /\ selectedGroup \in GroupIds
    /\ viewMode \in ViewModes
    /\ chartData = <<>>
    /\ loading = FALSE
    /\ toast = ""
    /\ inflight = {}
    /\ gen = NoCall
    /\ SeededTables
    /\ NoOtherView

NextAgg ==
    \/ \E hour \in ClockHours : ClickAnalyze(hour)
    \/ \E r \in inflight : SingleEntriesLoaded(r)
    \/ \E r \in inflight : GroupExercisesLoaded(r)
    \/ \E r \in inflight : GroupEntriesLoaded(r)

SpecAgg == InitAgg /\ [][NextAgg]_vars

\* One group analysis after another over a store in which the group Legs
\* holds, beside the seeded exercises, one that was added under the name
\* "date"; Squat and it have at most one row each, dated the day before.
InitNamed ==
    /\ today \in NowDays
    /\ tz \in TimeZones
    /\ exercise_groups = ExerciseGroupTable
    /\ exercises = ExerciseTable \cup
                       {[id |-> IdTable[1], name |-> "date", group_id |-> "g-legs"]}
    /\ nextId = 1
    /\ \E rows \in SUBSET RowPool({"e-squat", IdTable[1]}, {today - 1, today}) :
          workout_entries = SetToBag(rows)
    /\ selectedExercise = ""
    /\ selectedGroup = "g-legs"
    /\ viewMode \in ViewModes
    /\ chartData = <<>>
    /\ loading = FALSE
    /\ toast = ""
    /\ inflight = {}
    /\ gen = NoCall
    /\ NoOtherView

NextNamed ==
    \/ \E hour \in ClockHours : ClickAnalyze(hour)
    \/ \E r \in inflight : GroupExercisesLoaded(r)
    \/ \E r \in inflight : GroupEntriesLoaded(r)

SpecNamed == InitNamed /\ [][NextNamed]_vars

\* generateDateIntervals called directly on any interval start <= end
GenStartDays ==
    { DayNumber(<<2023, 12, 30>>), DayNumber(<<2024, 1, 31>>), DayNumber(<<2024, 2, 28>>) }

InitGen ==
    /\ tz \in TimeZones
    /\ viewMode \in ViewModes
    /\ \E day \in GenStartDays, span \in 0..MaxSpan, h1 \in ClockHours, h2 \in ClockHours :
          /\ LocalInstant(day, h1) <= LocalInstant(day + span, h2)
          /\ gen = [state |-> "args", start |-> LocalInstant(day, h1),
                    end |-> LocalInstant(day + span, h2), result |-> <<>>]
    /\ today = LocalDay(gen.end)
    /\ workout_entries = EmptyBag
    /\ selectedExercise = ""
    /\ selectedGroup = ""
    /\ chartData = <<>>
    /\ loading = FALSE
    /\ toast = ""
    /\ inflight = {}
    /\ SeededTables
    /\ NoOtherView

NextGen == GenerateDateIntervals

SpecGen == InitGen /\ [][NextGen]_vars

\* generateDateIntervals called directly with start > end, built with any
\* date-fns that the import of line 52 admits
InitInvalid ==
    /\ tz \in TimeZones
    /\ viewMode \in ViewModes
    /\ \E day \in GenStartDays, span \in 0..MaxSpan, h1 \in ClockHours, h2 \in ClockHours :
          /\ LocalInstant(day, h1) < LocalInstant(day + span, h2)
          /\ gen = [state |-> "args", start |-> LocalInstant(day + span, h2),
                    end |-> LocalInstant(day, h1), result |-> <<>>]
    /\ today = LocalDay(gen.start)
    /\ workout_entries = EmptyBag
    /\ selectedExercise = ""
    /\ selectedGroup = ""
    /\ chartData = <<>>
    /\ loading = FALSE
    /\ toast = ""
    /\ inflight = {}
    /\ SeededTables
    /\ NoOtherView

NextInvalid ==
    \/ GenerateDateIntervalsThrows
    \/ GenerateDateIntervalsReversed

SpecInvalid == InitInvalid /\ [][NextInvalid]_vars

-----------------------------------------------------------------------------
(* What the claims speak of                                                *)

\* the intervals of request r's window
IntervalsOf(r) == generateDateIntervals(r.mode, r.start, r.end)

\* the rows of the store that request r's query returns
ReturnedRows(r) ==
    SelectEntries(r.ids, format(r.start, "yyyy-MM-dd"), format(r.end, "yyyy-MM-dd"))

\* a workout_date normalized to the granularity of the mode's buckets:
\* the full date, or its year and month
BucketKeyOf(mode, day) ==
    IF mode = "year" THEN <<YMD(day)[1], YMD(day)[2]>> ELSE YMD(day)

\* the rows of a sequence that belong to the bucket with the given key
RowsOfBucket(rows, mode, key) ==
    SelectSeq(rows, LAMBDA row : BucketKeyOf(mode, row.workout_date) = key)

RowsOfExercise(rows, name) ==
    SelectSeq(rows, LAMBDA row : ExerciseById(row.exercise_id).name = name)

TotalEffort(rows) == SumSeq([i \in 1..Len(rows) |-> Effort(rows[i])])

\* a step in which an analysis sets the chart data
AnalysisSucceeds(r) == SingleEntriesLoaded(r) \/ GroupEntriesLoaded(r)

\* the series keys of a chart record
SeriesKeys(record) == DOMAIN record \ {"date"}

\* the sum of every series value of every record of a chart
RECURSIVE SumOver(_, _)
SumOver(keys, record) ==
    IF keys = {} THEN 0
    ELSE LET k == CHOOSE x \in keys : TRUE
         IN  record[k] + SumOver(keys \ {k}, record)

ChartTotal(chart) ==
    SumSeq([i \in 1..Len(chart) |-> SumOver(SeriesKeys(chart[i]), chart[i])])

-----------------------------------------------------------------------------
(* C1: whenever the workout-entries query of an analysis succeeds, in      *)
(* single-exercise and in group mode, the chart data holds exactly one     *)
(* record per interval of generateDateIntervals for the window, in the     *)
(* same order, whatever the number of rows returned.                       *)
C1_OneRecordPerInterval ==
    [][\A r \in inflight :
          (loading /\ ~loading' /\ AnalysisSucceeds(r)) =>
              LET intervals == IntervalsOf(r) IN
              /\ Len(chartData') = Len(intervals)
              /\ \A i \in 1..Len(chartData') : chartData'[i].date = intervals[i].date]_vars

\* a week chart of eight records, all zero, drawn for an exercise that has
\* no rows while the store holds rows
C1_Witness ==
    /\ ~loading
    /\ selectedExercise = "e-press"
    /\ workout_entries # EmptyBag
    /\ Len(chartData) = 8
    /\ \A i \in 1..8 : SeriesKeys(chartData[i]) = {"effort"} /\ chartData[i].effort = 0

(* C2: in single-exercise mode, for every view mode, the efforts of the    *)
(* output records add up to the efforts of the rows the window-filtered    *)
(* query returned: every returned row is counted in exactly one bucket.    *)
C2_EveryReturnedRowCountedOnce ==
    [][\A r \in inflight :
          (loading /\ ~loading' /\ SingleEntriesLoaded(r)) =>
              ChartTotal(chartData') = TotalEffort(ReturnedRows(r))]_vars

(* C3: in single-exercise mode each output record's effort is the sum of   *)
(* effort over exactly the returned entries whose workout_date, normalized *)
(* to the bucket's granularity, equals the bucket's key, and 0 when there  *)
(* is none.                                                                *)
C3_EffortIsSumOfBucketRows ==
    [][\A r \in inflight :
          (loading /\ ~loading' /\ SingleEntriesLoaded(r)) =>
              LET intervals == IntervalsOf(r)
                  rows      == ReturnedRows(r)
              IN  \A i \in 1..Len(intervals) :
                      chartData'[i].effort =
                          TotalEffort(RowsOfBucket(rows, r.mode, intervals[i].dateValue))]_vars

\* a < b for two "yyyy-MM-dd" or two "yyyy-MM" strings
KeyLess(a, b) ==
    \E k \in 1..Len(a) : a[k] < b[k] /\ \A j \in 1..(k - 1) : a[j] = b[j]

(* C4: for every start <= end and every view mode generateDateIntervals    *)
(* returns a non-empty sequence whose keys are strictly ascending, whose   *)
(* first key is the day (week, month mode) or the year-month (year mode)   *)
(* of start and whose last key is that of end.                             *)
C4_IntervalsNonEmptyAscendingStartToEnd ==
    gen.state = "done" =>
        LET result == gen.result IN
        /\ Len(result) > 0
        /\ \A i \in 1..(Len(result) - 1) :
              KeyLess(result[i].dateValue, result[i + 1].dateValue)
        /\ result[1].dateValue = BucketKeyOf(viewMode, LocalDay(gen.start))
        /\ result[Len(result)].dateValue = BucketKeyOf(viewMode, LocalDay(gen.end))

\* a year-mode call over an interval that ends at local midnight in a later
\* month of the next year
C4_Witness ==
    /\ gen.state = "done"
    /\ viewMode = "year"
    /\ LocalHour(gen.end) = 0
    /\ Len(gen.result) = 3
    /\ gen.result[1].dateValue = <<2023, 12>>
    /\ gen.result[3].dateValue = <<2024, 2>>

(* C5: whatever the client's UTC offset, a returned entry is counted in    *)
(* the bucket whose key is its own yyyy-MM (year mode) or its full date    *)
(* (week and month mode), and in no other bucket.                          *)
C5_EntryMatchesOwnBucketOnly ==
    [][\A r \in inflight :
          (loading /\ ~loading' /\ AnalysisSucceeds(r)) =>
              LET intervals == IntervalsOf(r)
                  rows      == ReturnedRows(r)
              IN  \A i \in 1..Len(intervals), j \in 1..Len(rows) :
                      EntryInInterval(r.mode, SingleRow(rows[j]), intervals[i])
                          <=> intervals[i].dateValue = BucketKeyOf(r.mode, rows[j].workout_date)]_vars

\* the rows of the store for the exercises request r asks for
ScopeRows(r) == { row \in BagToSet(workout_entries) : row.exercise_id \in r.ids }

\* the efforts of the rows of a set, each as often as the store holds it
RECURSIVE StoredEffort(_)
StoredEffort(rows) ==
    IF rows = {} THEN 0
    ELSE LET row == CHOOSE x \in rows : TRUE
         IN  workout_entries[row] * Effort(row) + StoredEffort(rows \ {row})

(* C6: in every view mode an entry dated on the window's start day or end  *)
(* day contributes to the chart, and one dated a day before the start or a *)
(* day after the end contributes to no bucket: when the scope's entries    *)
(* all lie on these four days, the chart adds up to the efforts of those   *)
(* on the start day and the end day.                                       *)
C6_WindowEndsIncluded ==
    [][\A r \in inflight :
          (loading /\ ~loading' /\ AnalysisSucceeds(r)) =>
              LET first  == LocalDay(r.start)
                  last   == LocalDay(r.end)
                  inside == { row \in ScopeRows(r) : row.workout_date \in {first, last} }
                  beside == { row \in ScopeRows(r) : row.workout_date \in {first - 1, last + 1} }
              IN  ScopeRows(r) = inside \cup beside =>
                      ChartTotal(chartData') = StoredEffort(inside)]_vars

(* C7: in group mode every output record carries one key for each distinct *)
(* exercise name found in the returned entries, whose value is the sum of  *)
(* effort of the entries of that bucket and that exercise, 0 when there is *)
(* none.                                                                   *)
C7_SeriesValueIsSumOfBucketAndExercise ==
    [][\A r \in inflight :
          (loading /\ ~loading' /\ GroupEntriesLoaded(r)) =>
              LET intervals == IntervalsOf(r)
                  rows      == ReturnedRows(r)
                  names     == { ExerciseById(rows[j].exercise_id).name : j \in 1..Len(rows) }
              IN  \A i \in 1..Len(intervals), name \in names :
                      /\ name \in DOMAIN chartData'[i]
                      /\ chartData'[i][name] =
                            TotalEffort(RowsOfExercise(
                                RowsOfBucket(rows, r.mode, intervals[i].dateValue), name))]_vars

\* the names of the exercises of group g that have a row dated from the
\* local day of start to the local day of end
NamesWithEntries(g, start, end) ==
    { e.name : e \in { x \in ExerciseTable :
          /\ x.group_id = g
          /\ \E row \in BagToSet(workout_entries) :
                /\ row.exercise_id = x.id
                /\ row.workout_date >= LocalDay(start)
                /\ row.workout_date <= LocalDay(end) } }

(* C8: in group mode the series keys of the output are exactly the names   *)
(* of the exercises of the group that have an entry in the queried window: *)
(* an exercise without one gives no key, and when no entry is returned     *)
(* every record is the label alone.                                        *)
C8_SeriesKeysAreNamesWithEntries ==
    [][\A r \in inflight :
          (loading /\ ~loading' /\ GroupEntriesLoaded(r)) =>
              \A i \in 1..Len(chartData') :
                  DOMAIN chartData'[i] =
                      {"date"} \cup NamesWithEntries(r.scope, r.start, r.end)]_vars

\* a chart of group Legs with the series Squat alone, while Leg Press has
\* a row in the store
C8_Witness ==
    /\ ~loading
    /\ selectedGroup = "g-legs"
    /\ \E row \in BagToSet(workout_entries) : row.exercise_id = "e-press"
    /\ Len(chartData) > 0
    /\ \A i \in 1..Len(chartData) : DOMAIN chartData[i] = {"date", "Squat"}

\* the distinct exercise names of the rows request r's query returns
ReturnedNames(r) ==
    { ExerciseById(ReturnedRows(r)[j].exercise_id).name : j \in 1..Len(ReturnedRows(r)) }

(* C9, as claimed: in group mode, when some exercise has entries in the    *)
(* window, the record of a bucket in which no exercise of the group has an *)
(* entry carries the label only and no series key.                         *)
C9_EmptyBucketIsLabelOnly ==
    [][\A r \in inflight :
          (loading /\ ~loading' /\ GroupEntriesLoaded(r)) =>
              LET intervals == IntervalsOf(r)
                  rows      == ReturnedRows(r)
              IN  \A i \in 1..Len(intervals) :
                      (Len(rows) > 0 /\ Len(RowsOfBucket(rows, r.mode, intervals[i].dateValue)) = 0)
                          => DOMAIN chartData'[i] = {"date"}]_vars

(* C9, amended: in group mode, when some exercise has entries in the       *)
(* window, the record of a bucket in which no exercise of the group has an *)
(* entry carries, besides the label, the same series keys as every other   *)
(* record: one for each exercise name found in the returned entries.       *)
C9_EmptyBucketHasEverySeriesKey ==
    [][\A r \in inflight :
          (loading /\ ~loading' /\ GroupEntriesLoaded(r)) =>
              LET intervals == IntervalsOf(r)
                  rows      == ReturnedRows(r)
              IN  \A i \in 1..Len(intervals) :
                      (Len(rows) > 0 /\ Len(RowsOfBucket(rows, r.mode, intervals[i].dateValue)) = 0)
                          => DOMAIN chartData'[i] = {"date"} \cup ReturnedNames(r)]_vars

\* a week chart of group Legs in which Squat has effort on the last day
\* and the first day's record, of a day without entries, has the key Squat
C9_Witness ==
    /\ ~loading
    /\ Len(chartData) = 8
    /\ DOMAIN chartData[8] = {"date", "Squat"} /\ chartData[8].Squat > 0
    /\ DOMAIN chartData[1] = {"date", "Squat"} /\ chartData[1].Squat = 0

-----------------------------------------------------------------------------
(* The windows of an analysis triggered on day D, from the calendar        *)

\* D minus one calendar month: the same day of the previous month, or that
\* month's last day when it is shorter
OneMonthBefore(day) ==
    LET c  == YMD(day)
        y  == IF c[2] = 1 THEN c[1] - 1 ELSE c[1]
        m  == IF c[2] = 1 THEN 12 ELSE c[2] - 1
        d  == IF c[3] <= DaysInMonth(y, m) THEN c[3] ELSE DaysInMonth(y, m)
    IN  DayNumber(<<y, m, d>>)

\* the i-th calendar month counted from month m of year y, as <<y, m>>
MonthFrom(y, m, i) == <<y + ((m - 1 + i - 1) \div 12), ((m - 1 + i - 1) % 12) + 1>>

ExpectedKeys(mode, day) ==
    CASE mode = "week"  -> [i \in 1..8 |-> YMD(day - 8 + i)]
      [] mode = "month" -> [i \in 1..(day - OneMonthBefore(day) + 1) |->
                               YMD(OneMonthBefore(day) + i - 1)]
      [] mode = "year"  -> [i \in 1..13 |-> MonthFrom(YMD(day)[1] - 1, YMD(day)[2], i)]

(* C10: an analysis triggered on day D yields, in week mode, exactly 8 day *)
(* buckets keyed D-7 to D; in month mode one day bucket per calendar day   *)
(* from D minus one calendar month to D; in year mode one month bucket per *)
(* calendar month from the month of D minus one year to the month of D.    *)
C10_WindowBuckets ==
    [][\A r \in inflight :
          (loading /\ ~loading' /\ AnalysisSucceeds(r)) =>
              LET intervals == IntervalsOf(r)
                  expected  == ExpectedKeys(r.mode, today)
              IN  /\ Len(chartData') = Len(expected)
                  /\ Len(intervals) = Len(expected)
                  /\ \A i \in 1..Len(expected) : intervals[i].dateValue = expected[i]]_vars

\* on 31 March a month chart of 32 records, from 29 February
C10_Witness ==
    /\ ~loading
    /\ today = DayNumber(<<2024, 3, 31>>)
    /\ Len(chartData) = 32
    /\ chartData[1].date = <<"Feb", 29>>
    /\ chartData[32].date = <<"Mar", 31>>

-----------------------------------------------------------------------------
\* a step in which a query of an analysis fails
AnalysisFails(r) ==
    SingleEntriesFailed(r) \/ GroupExercisesFailed(r) \/ GroupEntriesFailed(r)

ErrorDescriptions == {"Failed to load workout data", "Failed to load group exercises"}

(* C11: when a query of an analysis fails, chartData keeps its value, an   *)
(* error notification is raised and no request is left or issued: no retry *)
(* and, in group mode, no workout-entries query after a failed exercises   *)
(* query.  A request is only ever issued by a click on Analyze or by the   *)
(* successful first query of a group analysis.                             *)
C11_FailureKeepsChartAndStops ==
    [][/\ \A r \in inflight :
             (loading /\ ~loading' /\ AnalysisFails(r)) =>
                 /\ chartData' = chartData
                 /\ toast' \in ErrorDescriptions
                 /\ inflight' = {}
       /\ (inflight' \ inflight # {}) =>
             \/ \E hour \in ClockHours : ClickAnalyze(hour)
             \/ \E r \in inflight : GroupExercisesLoaded(r)]_vars

\* the first query of a group analysis has failed and the chart still shows
\* the records of an earlier analysis
C11_Witness ==
    /\ toast = "Failed to load group exercises"
    /\ selectedGroup # ""
    /\ ~loading /\ inflight = {}
    /\ Len(chartData) = 8
    /\ \A i \in 1..8 : SeriesKeys(chartData[i]) = {"effort"}

(* C12: loading is true exactly while a request of an analysis is in       *)
(* flight, the Analyze button is disabled while loading is true, and at    *)
(* most one request is in flight at any time.                              *)
C12_OneRequestAtATime ==
    /\ Cardinality(inflight) <= 1
    /\ loading <=> inflight # {}
    /\ loading => ~ENABLED (\E hour \in ClockHours : ClickAnalyze(hour))

\* the second query of a group analysis is in flight, for another scope
\* than the one selected by now
C12_Witness ==
    /\ loading
    /\ \E r \in inflight : r.kind = "groupEntries" /\ r.scope = "g-legs"
    /\ selectedExercise = "e-bench"

(* C14: whenever loading is true it becomes false again, whether the       *)
(* request succeeds, the group-exercises query fails or the workout-       *)
(* entries query fails; and whenever loading is false and an exercise or a *)
(* group is selected the Analyze button can be clicked.                    *)
C14_LoadingEnds ==
    /\ loading ~> ~loading
    /\ []((~loading /\ (selectedExercise # "" \/ selectedGroup # "")) =>
              ENABLED (\E hour \in ClockHours : ClickAnalyze(hour)))

\* the workout-entries query of a group analysis has failed, and loading is
\* false
C14_Witness ==
    /\ ~loading
    /\ toast = "Failed to load workout data"
    /\ selectedGroup = "g-chest"
    /\ chartData = <<>>

(* C15: with no exercise and no group selected, a call of handleAnalyze,   *)
(* of fetchSingleExerciseData or of fetchGroupData issues no request and   *)
(* changes neither loading nor chartData nor the notification.             *)
C15_NoScopeNoRequest ==
    [][(/\ selectedExercise = "" /\ selectedGroup = ""
        /\ \E hour \in ClockHours :
              \/ CallHandleAnalyze(hour)
              \/ CallFetchSingleExerciseData(hour)
              \/ CallFetchGroupData(hour))
          => UNCHANGED <<inflight, loading, chartData, toast>>]_vars

\* handleAnalyze has been called with nothing selected
C15_Witness ==
    /\ gen.state = "handleAnalyze"
    /\ selectedExercise = "" /\ selectedGroup = ""
    /\ inflight = {} /\ ~loading /\ chartData = <<>> /\ toast = ""

-----------------------------------------------------------------------------
\* the rows the store holds for an exercise
StoredRowsOf(id) == { row \in BagToSet(workout_entries) : row.exercise_id = id }

\* a chart of the effect-driven view's single-exercise card shows the rows
\* of exercise id: as many records as rows, each the date and the product
\* of a row
ShowsExercise(chart, id) ==
    /\ Len(chart) = BagCardinality([row \in StoredRowsOf(id) |-> workout_entries[row]])
    /\ \A i \in 1..Len(chart) :
          \E row \in StoredRowsOf(id) :
              /\ chart[i].date = YMD(row.workout_date)
              /\ chart[i].effort = row.weight_kg * row.reps

\* the names of the exercises of a group
NamesOfGroup(g) == { e.name : e \in { x \in exercises : x.group_id = g } }

(* C13: in the effect-driven view a change of the selected exercise or     *)
(* group issues a fetch for the new selection and leaves every request in  *)
(* flight as it is; each response that arrives sets the displayed data to  *)
(* the rows of its own request's scope, whatever is selected by then and   *)
(* whichever request was issued last.                                      *)
C13_LastResponseWins ==
    [][/\ \A id \in ExerciseIds :
             SetSelectedExercise(id) =>
                 /\ inflight \subseteq inflight'
                 /\ \E q \in inflight' : q.kind = "singleData" /\ q.scope = id
       /\ \A id \in GroupIds :
             SetSelectedGroup(id) =>
                 /\ inflight \subseteq inflight'
                 /\ \E q \in inflight' : q.kind = "groupData" /\ q.scope = id
       /\ \A r \in inflight :
             SingleDataLoaded(r) => ShowsExercise(singleExerciseData', r.scope)
       /\ \A r \in inflight :
             GroupDataLoaded(r) =>
                 \A i \in 1..Len(groupData') :
                     SeriesKeys(groupData'[i]) \subseteq NamesOfGroup(r.scope)]_vars

\* Barbell Bench Press is selected, no request is in flight, and the chart
\* shows the two rows of Squat
C13_Witness ==
    /\ selectedExercise = "e-bench"
    /\ inflight = {}
    /\ Len(singleExerciseData) = 2
    /\ ShowsExercise(singleExerciseData, "e-squat")
    /\ ~ShowsExercise(singleExerciseData, "e-bench")

\* a date lies in the window of a time period for an analysis made today
InWindow(date, period) ==
    /\ DayNumber(date) >= WindowStartDay(period, today)
    /\ DayNumber(date) <= today

(* C19: every read of workout_entries by the effect-driven view, for an    *)
(* exercise and for a group, returns only rows whose workout_date lies in  *)
(* the window of the time period selected when the read was issued,        *)
(* ascending by workout_date.                                              *)
C19_ReadsAreWindowedAndOrdered ==
    [][\A r \in inflight :
          /\ SingleDataLoaded(r) =>
                /\ \A i \in 1..Len(singleExerciseData') :
                      InWindow(singleExerciseData'[i].date, r.timeframe)
                /\ \A i \in 1..(Len(singleExerciseData') - 1) :
                      DayNumber(singleExerciseData'[i].date)
                          <= DayNumber(singleExerciseData'[i + 1].date)
          /\ GroupDataLoaded(r) =>
                /\ \A i \in 1..Len(groupData') : InWindow(groupData'[i].date, r.timeframe)
                /\ \A i \in 1..(Len(groupData') - 1) :
                      DayNumber(groupData'[i].date) < DayNumber(groupData'[i + 1].date)]_vars

-----------------------------------------------------------------------------
(* C16: in the guarded management view no delete request is issued for a   *)
(* group that an exercise of the store references, whatever page loads,    *)
(* adds and deletes came before.                                           *)
C16_NoDeleteRequestForReferencedGroup ==
    [][managementView = "guarded" =>
          \A q \in inflight' \ inflight :
              q.kind = "deleteGroup" => ~\E e \in exercises : e.group_id = q.id]_vars

(* C17: every exercise's group_id is the id of a group and every workout   *)
(* entry's exercise_id is the id of an exercise, after any sequence of     *)
(* inserts and deletes; and the delete of a group leaves none of its       *)
(* exercises and none of their workout entries.                            *)
C17_ReferencesHoldAndDeletesCascade ==
    /\ [](/\ \A e \in exercises : \E g \in exercise_groups : g.id = e.group_id
          /\ \A row \in BagToSet(workout_entries) :
                \E e \in exercises : e.id = row.exercise_id)
    /\ [][\A id \in AllGroupIds :
             StoreDeleteGroup(id) =>
                 LET gone == { e.id : e \in { x \in exercises : x.group_id = id } } IN
                 /\ \A e \in exercises' : e.group_id # id /\ e.id \notin gone
                 /\ \A row \in BagToSet(workout_entries') : row.exercise_id \notin gone]_vars

\* the group Legs is gone, and with it Squat, Leg Press and the workout
\* entry of Squat, while an entry logged for Barbell Bench Press is there
C17_Witness ==
    /\ \A g \in exercise_groups : g.id # "g-legs"
    /\ { e.id : e \in exercises } = {"e-bench"}
    /\ BagCardinality(workout_entries) = 1
    /\ \E row \in BagToSet(workout_entries) :
          row.exercise_id = "e-bench" /\ row.workout_date = today /\ row.weight_kg = 8056

\* no two rows of a table have the same name
UniqueNames(table) == \A a \in table, b \in table : a.name = b.name => a = b

(* C20: no two exercise groups and no two exercises have the same name;    *)
(* and an add of a name that a row of the table has is answered by the     *)
(* error, changes neither the store nor the two lists and leaves the name  *)
(* in the form as it was typed.                                            *)
C20_NamesUniqueAndDuplicateAddRejected ==
    /\ [](UniqueNames(exercise_groups) /\ UniqueNames(exercises))
    /\ [][\A r \in inflight :
             /\ ((GroupAdded(r) \/ GroupAddFailed(r))
                    /\ \E g \in exercise_groups : g.name = r.name) =>
                   /\ toast' = "Failed to add exercise group. It might already exist."
                   /\ UNCHANGED <<exercise_groups, exercises, workout_entries>>
                   /\ UNCHANGED <<exercisesList, exerciseGroups>>
                   /\ newGroupName' = newGroupName
             /\ ((ExerciseAdded(r) \/ ExerciseAddFailed(r))
                    /\ \E e \in exercises : e.name = r.name) =>
                   /\ toast' = "Failed to add exercise. It might already exist."
                   /\ UNCHANGED <<exercise_groups, exercises, workout_entries>>
                   /\ UNCHANGED <<exercisesList, exerciseGroups>>
                   /\ newExerciseName' = newExerciseName]_vars

\* the add of " Legs" has been refused: the store holds Legs, the list
\* shows it, and the field still reads " Legs"
C20_Witness ==
    /\ toast = "Failed to add exercise group. It might already exist."
    /\ ~mgmtLoading
    /\ newGroupName = " Legs"
    /\ \E g \in exercise_groups : g.name = "Legs"
    /\ exerciseGroups = exercise_groups
    /\ Mutations(inflight) = {}

(* C18: the effort of a stored workout entry is weight_kg x reps: no       *)
(* insert that the form sends carries an effort, the effort column that    *)
(* the store returns for a row is the product of the row's weight_kg and   *)
(* reps, and each record that the effect-driven view builds from a read    *)
(* carries the product of the weight_kg and reps of the row it is built    *)
(* from.                                                                   *)
C18_EffortIsWeightTimesReps ==
    /\ [](/\ \A q \in inflight :
                q.kind = "insertEntry" => "effort" \notin DOMAIN q.payload
          /\ \A row \in BagToSet(workout_entries) :
                /\ SingleRow(row).effort = row.weight_kg * row.reps
                /\ GroupRow(row).effort = row.weight_kg * row.reps)
    /\ [][\A r \in inflight :
             (r.kind = "singleData" /\ SingleDataLoaded(r)) =>
                 LET rows == SelectEntriesOf({r.scope}) IN
                 /\ Len(singleExerciseData') = Len(rows)
                 /\ \A i \in 1..Len(rows) :
                       /\ singleExerciseData'[i].date = YMD(rows[i].workout_date)
                       /\ singleExerciseData'[i].effort = rows[i].weight_kg * rows[i].reps]_vars

\* 80.5 kg for 3 repetitions of Squat has been logged through the form and
\* read by the effect-driven view: the chart holds 241.50 for that day
C18_Witness ==
    /\ \E row \in BagToSet(workout_entries) :
          /\ row.exercise_id = "e-squat" /\ row.weight_kg = 8050 /\ row.reps = 3
          /\ row.workout_date = today
    /\ BagCardinality(workout_entries) = 1
    /\ toast = "Workout entry logged successfully"
    /\ singleExerciseData = <<[date |-> YMD(today), effort |-> 24150]>>

(* C21: a call of generateDateIntervals with start > end returns no        *)
(* sequence: it ends in an error.                                          *)
C21_StartAfterEndFails ==
    gen.start > gen.end => gen.state \in {"args", "RangeError"}

(* C22: with the scope, the view mode, the client's day and the stored     *)
(* rows the same, an analysis that completes while the chart holds the     *)
(* data of an earlier analysis leaves the chart data equal to it.          *)
C22_SameAnalysisSameChart ==
    [][(loading /\ ~loading' /\ chartData # <<>>) => chartData' = chartData]_vars

\* the chart holds the data of a Squat analysis, with an effort in it, and
\* a second analysis of Squat is in flight
C22_Witness ==
    /\ loading
    /\ selectedExercise = "e-squat"
    /\ \E r \in inflight : r.kind = "entries" /\ r.scope = "e-squat" /\ r.mode = viewMode
    /\ \E i \in 1..Len(chartData) : chartData[i].effort = 8000 * 10

\* the series keys of the records of a chart's data
AllSeriesKeys(data) == UNION { SeriesKeys(data[i]) : i \in 1..Len(data) }

(* C23: the group chart of the effect-driven view draws one line for every *)
(* exercise name that is a key of any record of its data, and no other.    *)
C23_OneLinePerSeries ==
    GroupLines(groupData) = AllSeriesKeys(groupData)

\* a field that handleSubmit requires is empty
FieldMissing ==
    \/ entryExercise = "" \/ weight = "" \/ reps = ""
    \/ (entryView = "dated" /\ workoutDate = <<>>)

(* C24: a submit of the workout form with the exercise, the weight, the    *)
(* repetitions or (with the date picker) the date empty sends no request,  *)
(* raises the Missing Information notification and changes neither a      *)
(* field nor loading.                                                      *)
C24_MissingFieldNoInsert ==
    [][(FieldMissing /\ handleSubmit) =>
          /\ inflight' = inflight
          /\ toast' = "Please fill in all fields"
          /\ UNCHANGED <<entryExercise, weight, reps, workoutDate, entryLoading>>
          /\ UNCHANGED workout_entries]_vars

\* Squat and 80 kg are entered, the date is deselected, and the submit has
\* raised the notification: nothing is in flight and nothing is stored
C24_Witness ==
    /\ toast = "Please fill in all fields"
    /\ entryView = "dated"
    /\ entryExercise = "e-squat" /\ weight = "80" /\ reps = "10" /\ workoutDate = <<>>
    /\ ~entryLoading
    /\ inflight = {}
    /\ workout_entries = EmptyBag

(* C29: the answer to a workout insert that succeeded empties the          *)
(* exercise, the weight and the repetitions and, with the date picker,     *)
(* sets the date to an instant of the client's current day; the answer to  *)
(* one that failed leaves the four as they are; both set loading to false, *)
(* which enables the submit button again.                                  *)
C29_ResetOnSuccessKeepOnFailure ==
    [][\A r \in inflight :
          r.kind = "insertEntry" =>
              /\ (\E hour \in ClockHours : EntryInserted(r, hour)) =>
                     /\ entryExercise' = "" /\ weight' = "" /\ reps' = ""
                     /\ entryView = "dated" =>
                            Len(workoutDate') = 1 /\ LocalDay(workoutDate'[1]) = today
                     /\ ~entryLoading'
              /\ EntryInsertFailed(r) =>
                     /\ UNCHANGED <<entryExercise, weight, reps, workoutDate>>
                     /\ ~entryLoading']_vars

\* one entry has been logged, and a second insert, of 80.5 kg for 3
\* repetitions of Squat dated the day before, has failed: the form still
\* holds it and is not loading
C29_Witness ==
    /\ BagCardinality(workout_entries) = 1
    /\ toast = "Failed to log workout entry"
    /\ entryView = "dated"
    /\ entryExercise = "e-squat" /\ weight = "80.5" /\ reps = "3"
    /\ workoutDate = <<LocalInstant(today - 1, 0)>>
    /\ ~entryLoading
    /\ inflight = {}

(* C27: in the view with the Analyze button the selected exercise and the  *)
(* selected group are never both non-empty.                                *)
C27_AtMostOneScope ==
    ~(selectedExercise # "" /\ selectedGroup # "")

\* the chart holds the data of a Squat analysis, and the group Legs has
\* been selected since: the exercise is cleared
C27_Witness ==
    /\ selectedGroup = "g-legs"
    /\ selectedExercise = ""
    /\ \E i \in 1..Len(chartData) :
          "effort" \in DOMAIN chartData[i] /\ chartData[i].effort = 8000 * 10

\* the chart data that an analysis of the selected scope in the selected
\* view mode yields today
ChartOfSelection ==
    LET range     == getDateRange(viewMode, LocalInstant(today, 0))
        lo        == format(range.start, "yyyy-MM-dd")
        hi        == format(range.end, "yyyy-MM-dd")
        intervals == generateDateIntervals(viewMode, range.start, range.end)
        ids       == { e.id : e \in { x \in ExerciseTable : x.group_id = selectedGroup } }
    IN  IF selectedExercise # ""
        THEN SingleProcessedData(viewMode, SingleRows(SelectEntries({selectedExercise}, lo, hi)),
                                 intervals)
        ELSE GroupProcessedData(viewMode, GroupRows(SelectEntries(ids, lo, hi)), intervals)

(* C25: in the view with the Analyze button, when the chart is displayed   *)
(* and no request is in flight, the chart data is that of an analysis of   *)
(* the scope and the view mode that are selected.                          *)
C25_ChartIsOfSelection ==
    (Len(chartData) > 0 /\ inflight = {} /\ ~loading) => chartData = ChartOfSelection

(* C26: in either exercise-management view, with no other writer and no   *)
(* request answered by an error, the list of exercises on display is the   *)
(* table of exercises whenever no request is outstanding.                  *)
C26_ListEqualsStoreWhenSettled ==
    inflight = {} => exercisesList = exercises

(* C28: in group mode the date field of every output record is the label   *)
(* of the record's interval, whatever the names of the exercises of the    *)
(* returned entries.  The two are compared as they print: a total written  *)
(* over the label is a number, which has no equality with a label.         *)
C28_LabelNeverOverwritten ==
    [][\A r \in inflight :
          (loading /\ ~loading' /\ GroupEntriesLoaded(r)) =>
              LET intervals == IntervalsOf(r)
              IN  \A i \in 1..Len(intervals) :
                      ToString(chartData'[i].date) = ToString(intervals[i].date)]_vars

\* weight_kg, in thousandths, is a DECIMAL(5,2) once rounded, and reps is a
\* positive INTEGER
InColumnRanges(payload) ==
    /\ RoundToHundredths(payload.weight_kg) \in 0..99999
    /\ payload.reps \in 1..2147483647

(* C30: the store accepts every workout insert whose weight_kg is a        *)
(* DECIMAL(5,2) and whose reps is a positive INTEGER: the product fits     *)
(* the effort column.                                                      *)
C30_ProductFitsEffortColumn ==
    \A q \in inflight :
        (q.kind = "insertEntry" /\ InColumnRanges(q.payload)) => InsertEntryAccepted(q.payload)

====
